---- MODULE Spec2Model ----
(***************************************************************************)
(* A model of the code-visualiser repository:                              *)
(*   - the project store and parse_and_store_project's transaction         *)
(*     (src/core/parser_manager.py, src/db/setup_db.py);                   *)
(*   - the full-stack tracer (src/workflows/full_stack_tracer.py);         *)
(*   - the call graph and the call tree                                    *)
(*     (src/workflows/api_function_mapper.py, find_js_callees);            *)
(*   - the names, the line ranges and the contents the parsers give the    *)
(*     elements of one file                                                *)
(*     (src/parsers/python_parser.py, js_parser.py, html_parser.py);       *)
(*   - the directory walk of a project parse and the parsing status        *)
(*     request (src/core/parser_manager.py, src/api/projects.py).          *)
(* Each part has its own specification over the shared variables; the      *)
(* variables of the other parts stay at their idle values.                 *)
(***************************************************************************)
EXTENDS Integers, Sequences, FiniteSets, TLC

VARIABLES
    \* ---- the store and one parse_and_store_project call ----
    committed,      \* the committed rows: projects, files, code_elements
    tx,             \* the rows as the open transaction sees them
    seq,            \* the SERIAL sequences (never rolled back)
    st_pc,          \* position of parse_and_store_project
    st_call,        \* the running call: name, path, run, project id, paths walked
    st_pre,         \* history: the committed rows when the call began
    st_log,         \* history: what the call did (deleted old rows, rows it inserted)
    st_result,      \* how the last call ended
    \* ---- the full-stack tracer over one stored project ----
    pyDefs,         \* the stored Python function elements: id -> decorators
    jsFuncs,        \* the stored Javascript function elements: id -> api_calls
    tr_pc,          \* "idle", or "done" once main() has run
    tr_endpoints,   \* py_endpoints of the last run
    tr_out,         \* the workflows the last run printed, in order
    tr_prev,        \* the workflows the run before it printed
    \* ---- the call graph of one stored project ----
    gr_defs,        \* get_all_definitions: the rows, names cleaned
    gr_imports,     \* get_imports: the import rows
    gr_js,          \* all_js_functions: the Javascript function rows
    gr_pc,          \* "start", "aliased", "graphed", "js"
    alias_map,      \* build_alias_map's result
    call_graph,     \* build_call_graph's result: id -> sorted callee ids
    js_callees,     \* the last find_js_callees call: caller and callees
    \* ---- print_call_tree under one endpoint ----
    t_graph,        \* the call graph handed to print_call_tree
    t_root,         \* the endpoint
    t_top,          \* main's loop: index of the endpoint's next callee
    t_stack,        \* the frames of print_call_tree, innermost last
    t_out,          \* the lines printed, in order
    t_pc,           \* "idle", "running", "done", "overflow"
    \* ---- one file, parsed and inserted ----
    pa_lang,        \* "py" or "js": the parser the file's extension selects
    pa_src,         \* the file's statements, each with its line and column
    pa_elems,       \* the elements parser.parse returned
    pa_rows,        \* the code_elements rows inserted for the file
    pa_pc,          \* "source", "parsed", "stored", "raised"
    \* ---- one file handed to its parser ----
    en_lang,        \* "py", "js" or "html"
    en_blocks,      \* the file: its blocks of source
    en_raises,      \* whether the tree parser (tree-sitter, lxml) raises
    en_out,         \* the elements parse returned
    en_pc,          \* "source", "returned", "raised"
    \* ---- the directory walk of parse_and_store_project ----
    wk_tree,        \* the files below the project directory
    wk_stack,       \* the directories os.walk has yet to yield
    wk_files,       \* the files of the current directory not yet looped over
    wk_opened,      \* history: the files open() was called for
    wk_parsed,      \* history: the files handed to a parser
    wk_recorded,    \* the files rows inserted by the open transaction
    wk_pc,          \* "idle", "walking", "raised", "done"
    \* ---- get_project_parsing_status ----
    ps_db,          \* the stored projects, files and code_elements
    ps_result,      \* the response of the last request
    ps_pc,          \* "idle", "done"
    \* ---- one module string handed to both resolvers ----
    rs_file,        \* the importing file
    rs_dots,        \* the leading dots of the module string
    rs_module,      \* its segments
    rs_api,         \* what api_function_mapper resolved it to
    rs_global,      \* what global_import_mapper resolved it to
    rs_done,        \* the resolvers that have run
    \* ---- one API call of a script function ----
    ap_literal,     \* the literal first argument of the call
    ap_path,        \* the path Pass 5 recorded
    ap_key,         \* the key the tracer looks up
    ap_pc,          \* "source", "recorded", "traced"
    \* ---- the connection pool and its callers ----
    connection_pool, \* the module's global: the pool, 0 for None
    po_made,        \* history: the pools created since the last close_pool
    po_next,        \* the number of the next pool
    po_pc,          \* where each caller is in get_db_connection
    po_pool,        \* each caller's local pool
    po_conn,        \* each caller's local conn
    po_entries,     \* the with-blocks each caller has entered
    po_handed,      \* the connections handed out so far
    po_used,        \* the pool that holds each connection as used, 0 for none
    po_puts,        \* history: the putconn calls for each connection, at 0 those for None
    po_how,         \* history: how each caller's last with-block ended
    \* ---- two concurrent runs of parse_and_store_project ----
    cc_committed,   \* the committed projects and files
    cc_nextid,      \* the next value of projects' id sequence
    cc_pc,          \* "start", "delete", "insert", "files", "done", "rolled back"
    cc_row,         \* each run's project_row: the id its SELECT returned, 0 for none
    cc_deleted,     \* the project ids each open transaction has deleted
    cc_project,     \* each run's project_id, 0 before its INSERT
    cc_files,       \* the files rows each run has inserted
    cc_why          \* history: why a run was rolled back

storeVars == <<committed, tx, seq, st_pc, st_call, st_pre, st_log, st_result>>
tracerVars == <<pyDefs, jsFuncs, tr_pc, tr_endpoints, tr_out, tr_prev>>

graphVars == <<gr_defs, gr_imports, gr_js, gr_pc, alias_map, call_graph, js_callees>>
treeVars == <<t_graph, t_root, t_top, t_stack, t_out, t_pc>>

parseVars == <<pa_lang, pa_src, pa_elems, pa_rows, pa_pc>>
enrichVars == <<en_lang, en_blocks, en_raises, en_out, en_pc>>
walkVars == <<wk_tree, wk_stack, wk_files, wk_opened, wk_parsed, wk_recorded, wk_pc>>
statusVars == <<ps_db, ps_result, ps_pc>>
resolveVars == <<rs_file, rs_dots, rs_module, rs_api, rs_global, rs_done>>
apiVars == <<ap_literal, ap_path, ap_key, ap_pc>>
poolVars == <<connection_pool, po_made, po_next, po_pc, po_pool, po_conn, po_entries, po_handed, po_used, po_puts, po_how>>
runsVars == <<cc_committed, cc_nextid, cc_pc, cc_row, cc_deleted, cc_project, cc_files, cc_why>>

vars ==
    <<storeVars, tracerVars, graphVars, treeVars, parseVars, enrichVars,
      walkVars, statusVars, resolveVars, apiVars, poolVars, runsVars>>

nonStoreVars ==
    <<tracerVars, graphVars, treeVars, parseVars, enrichVars, walkVars,
      statusVars, resolveVars, apiVars, poolVars, runsVars>>
nonTracerVars ==
    <<storeVars, graphVars, treeVars, parseVars, enrichVars, walkVars,
      statusVars, resolveVars, apiVars, poolVars, runsVars>>
nonGraphVars ==
    <<storeVars, tracerVars, treeVars, parseVars, enrichVars, walkVars,
      statusVars, resolveVars, apiVars, poolVars, runsVars>>
nonTreeVars ==
    <<storeVars, tracerVars, graphVars, parseVars, enrichVars, walkVars,
      statusVars, resolveVars, apiVars, poolVars, runsVars>>
nonParseVars ==
    <<storeVars, tracerVars, graphVars, treeVars, enrichVars, walkVars,
      statusVars, resolveVars, apiVars, poolVars, runsVars>>
nonEnrichVars ==
    <<storeVars, tracerVars, graphVars, treeVars, parseVars, walkVars,
      statusVars, resolveVars, apiVars, poolVars, runsVars>>
nonWalkVars ==
    <<storeVars, tracerVars, graphVars, treeVars, parseVars, enrichVars,
      statusVars, resolveVars, apiVars, poolVars, runsVars>>
nonStatusVars ==
    <<storeVars, tracerVars, graphVars, treeVars, parseVars, enrichVars,
      walkVars, resolveVars, apiVars, poolVars, runsVars>>
nonResolveVars ==
    <<storeVars, tracerVars, graphVars, treeVars, parseVars, enrichVars,
      walkVars, statusVars, apiVars, poolVars, runsVars>>
nonApiVars ==
    <<storeVars, tracerVars, graphVars, treeVars, parseVars, enrichVars,
      walkVars, statusVars, resolveVars, poolVars, runsVars>>
nonPoolVars ==
    <<storeVars, tracerVars, graphVars, treeVars, parseVars, enrichVars,
      walkVars, statusVars, resolveVars, apiVars, runsVars>>
nonRunsVars ==
    <<storeVars, tracerVars, graphVars, treeVars, parseVars, enrichVars,
      walkVars, statusVars, resolveVars, apiVars, poolVars>>

-----------------------------------------------------------------------------
(***************************************************************************)
(* Bounds and input sets of the store model.                               *)
(***************************************************************************)
MaxRuns == 2        \* calls of parse_and_store_project
MaxFiles == 1       \* files the walked directory holds
MaxElems == 2       \* elements one parsed file yields

ProjectNames == {"A", "B"}
ProjectPaths == {"/p", "/q"}
FilePaths == 1..MaxFiles     \* the relative paths, in the order os.walk yields them
ElemKeys == {[kind |-> "function", name |-> "f"]}

SeqsUpTo(S, n) == UNION {[1..k -> S] : k \in 0..n}

\* What parser.parse(content) can do for one file: return a list of elements
\* (here in insertion order, each with its kind and name), or raise.
ParseOutcomes ==
    {[raises |-> FALSE, elems |-> es] : es \in SeqsUpTo(ElemKeys, MaxElems)}
        \cup {[raises |-> TRUE, elems |-> <<>>]}

EmptyDb == [projects |-> {}, files |-> {}, elements |-> {}]

-----------------------------------------------------------------------------
(***************************************************************************)
(* The schema's rules (src/db/setup_db.py).                                *)
(***************************************************************************)

\* DELETE FROM projects WHERE id = pid, with ON DELETE CASCADE on
\* files.project_id and code_elements.file_id.
DeleteProjectCascade(db, pid) ==
    LET gone == {f \in db.files : f.project_id = pid}
        goneIds == {f.id : f \in gone}
    IN  [projects |-> {p \in db.projects : p.id # pid},
         files |-> db.files \ gone,
         elements |-> {e \in db.elements : e.file_id \notin goneIds}]

\* projects.path is UNIQUE.
PathTaken(db, path) == \E p \in db.projects : p.path = path

\* code_elements_file_id_name_kind_latest_idx: UNIQUE (file_id, name, kind).
ElementKeyTaken(db, fid, el) ==
    \E e \in db.elements : e.file_id = fid /\ e.name = el.name /\ e.kind = el.kind

\* insert_elements_recursively: the elements are inserted one by one; the
\* first one whose (file_id, name, kind) is already there raises and the rows
\* inserted before it stay in the transaction.  Returns the rows and whether
\* the insertion raised.
RECURSIVE InsertElements(_, _, _, _, _)
InsertElements(db, fid, els, nextId, run) ==
    IF els = <<>> THEN [db |-> db, raised |-> FALSE, nextId |-> nextId]
    ELSE IF ElementKeyTaken(db, fid, Head(els))
         THEN [db |-> db, raised |-> TRUE, nextId |-> nextId + 1]
         ELSE InsertElements(
                [db EXCEPT !.elements = @ \cup
                    {[id |-> nextId + 1, file_id |-> fid, kind |-> Head(els).kind,
                      name |-> Head(els).name, run |-> run]}],
                fid, Tail(els), nextId + 1, run)

-----------------------------------------------------------------------------
(***************************************************************************)
(* parse_and_store_project (src/core/parser_manager.py).                   *)
(***************************************************************************)

NoCall == [name |-> "", path |-> "", run |-> 0, project_id |-> 0, walked |-> 0]
NoLog == [deleted |-> FALSE, files |-> {}, elements |-> {}]

StoreInit ==
    /\ committed = EmptyDb
    /\ tx = EmptyDb
    /\ seq = [projects |-> 0, files |-> 0, elements |-> 0]
    /\ st_pc = "idle"
    /\ st_call = NoCall
    /\ st_pre = EmptyDb
    /\ st_log = NoLog
    /\ st_result = "none"

\* with get_db_connection() as conn: the transaction starts with the first
\* statement and sees the committed rows.
ParseCall(name, path) ==
    /\ st_pc = "idle"
    /\ st_call.run < MaxRuns
    /\ st_pc' = "select"
    /\ st_call' = [name |-> name, path |-> path, run |-> st_call.run + 1,
                   project_id |-> 0, walked |-> 0]
    /\ tx' = committed
    /\ st_pre' = committed
    /\ st_log' = NoLog
    /\ st_result' = "running"
    /\ UNCHANGED <<committed, seq>>
    /\ UNCHANGED nonStoreVars

\* A call that leaves the old project of that name in place.
KeepOldProject(db, name, pid) == db

\* Lines 42-49: SELECT id FROM projects WHERE name = %s; fetchone(); DELETE.
\* fetchone() yields one of the rows of that name.
DeleteOldProject(db, name, pid) == DeleteProjectCascade(db, pid)

SelectAndDelete ==
    /\ st_pc = "select"
    /\ LET rows == {p \in tx.projects : p.name = st_call.name}
       IN  IF rows = {}
           THEN UNCHANGED <<tx, st_log>>
           ELSE \E p \in rows :
                    /\ tx' = DeleteOldProject(tx, st_call.name, p.id)
                    /\ st_log' = [st_log EXCEPT !.deleted = TRUE]
    /\ st_pc' = "insert_project"
    /\ UNCHANGED <<committed, seq, st_call, st_pre, st_result>>
    /\ UNCHANGED nonStoreVars

\* Lines 52-56: INSERT INTO projects (name, path); a taken path violates the
\* UNIQUE constraint and raises.  The sequence value is used up either way.
InsertProject ==
    /\ st_pc = "insert_project"
    /\ seq' = [seq EXCEPT !.projects = @ + 1]
    /\ IF PathTaken(tx, st_call.path)
       THEN /\ st_pc' = "except"
            /\ UNCHANGED <<tx, st_call>>
       ELSE /\ tx' = [tx EXCEPT !.projects = @ \cup
                        {[id |-> seq.projects + 1, name |-> st_call.name,
                          path |-> st_call.path]}]
            /\ st_call' = [st_call EXCEPT !.project_id = seq.projects + 1]
            /\ st_pc' = "walk"
    /\ UNCHANGED <<committed, st_pre, st_log, st_result>>
    /\ UNCHANGED nonStoreVars

\* Lines 64-85: a file that is ignored, has no parser, cannot be read or is
\* blank is passed over.
WalkSkipFile(path) ==
    /\ st_pc = "walk"
    /\ path = st_call.walked + 1
    /\ st_call' = [st_call EXCEPT !.walked = path]
    /\ UNCHANGED <<committed, tx, seq, st_pc, st_pre, st_log, st_result>>
    /\ UNCHANGED nonStoreVars

\* Lines 87-131: the file row is inserted, the content parsed, the elements
\* inserted.  A raising parser leaves the file row in the transaction.
WalkParseFile(path, outcome) ==
    /\ st_pc = "walk"
    /\ path = st_call.walked + 1
    /\ LET fid == seq.files + 1
           withFile == [tx EXCEPT !.files = @ \cup
                          {[id |-> fid, project_id |-> st_call.project_id,
                            path |-> path, run |-> st_call.run]}]
           ins == InsertElements(withFile, fid, outcome.elems, seq.elements,
                                 st_call.run)
       IN  /\ st_call' = [st_call EXCEPT !.walked = path]
           /\ IF outcome.raises
              THEN /\ tx' = withFile
                   /\ seq' = [seq EXCEPT !.files = fid]
                   /\ st_pc' = "except"
              ELSE /\ tx' = ins.db
                   /\ seq' = [seq EXCEPT !.files = fid, !.elements = ins.nextId]
                   /\ st_pc' = IF ins.raised THEN "except" ELSE "walk"
           /\ st_log' = [st_log EXCEPT
                           !.files = @ \cup {fid},
                           !.elements = @ \cup
                               {e.id : e \in tx'.elements \ tx.elements}]
    /\ UNCHANGED <<committed, st_pre, st_result>>
    /\ UNCHANGED nonStoreVars

\* Line 133: conn.commit() once the walk is over.
Commit ==
    /\ st_pc = "walk"
    /\ st_call.walked = MaxFiles
    /\ committed' = tx
    /\ st_pc' = "idle"
    /\ st_result' = "committed"
    /\ UNCHANGED <<tx, seq, st_call, st_pre, st_log>>
    /\ UNCHANGED nonStoreVars

\* An except branch that leaves the transaction's rows in place.
AfterRollbackKeepsRows(c, t) == t

\* Lines 136-139: except Exception: conn.rollback(); raise.
AfterRollback(c, t) == c

Rollback ==
    /\ st_pc = "except"
    /\ committed' = AfterRollback(committed, tx)
    /\ tx' = committed'
    /\ st_pc' = "idle"
    /\ st_result' = "raised"
    /\ UNCHANGED <<seq, st_call, st_pre, st_log>>
    /\ UNCHANGED nonStoreVars

NextStore ==
    \/ \E n \in ProjectNames, p \in ProjectPaths : ParseCall(n, p)
    \/ SelectAndDelete
    \/ InsertProject
    \/ \E p \in FilePaths : WalkSkipFile(p)
    \/ \E p \in FilePaths, o \in ParseOutcomes : WalkParseFile(p, o)
    \/ Commit
    \/ Rollback

-----------------------------------------------------------------------------
(***************************************************************************)
(* The full-stack tracer (src/workflows/full_stack_tracer.py).             *)
(*                                                                         *)
(* A path is the sequence of its segments.  A segment is a literal, a      *)
(* backend parameter "{x}" or a frontend placeholder "${x}".               *)
(***************************************************************************)
MaxDecos == 2       \* route decorators in the stored project
MaxCalls == 2       \* api_calls in the stored project

PyIds == {1, 2}
JsIds == {3, 4}

Literals == {"api", "a", "b"}
PyParams == {"{x}", "{y}", "{VAR}"}      \* what \{[^}]+\} matches
JsPlaceholders == {"${x}", "${y}"}       \* what \$\{[^}]+\} matches

\* _parse_api_decorator's verbs, and the verbs of the tracer's own pattern.
HttpVerbs == {"get", "post", "put", "delete", "patch", "options", "head", "trace"}
RouterPatternVerbs == {"get", "post", "put", "delete", "patch"}

\* str.upper() on a verb.
Upper(v) ==
    CASE v = "get" -> "GET" [] v = "post" -> "POST" [] v = "put" -> "PUT"
      [] v = "delete" -> "DELETE" [] v = "patch" -> "PATCH"
      [] v = "options" -> "OPTIONS" [] v = "head" -> "HEAD"
      [] v = "trace" -> "TRACE" [] OTHER -> v

\* The decorators a stored function's content can start with:
\* @<obj>.<verb>("<path>").
DecoSet ==
    {[obj |-> "router", verb |-> "get", path |-> <<"a", "{x}">>],
     [obj |-> "router", verb |-> "post", path |-> <<"a", "{x}">>],
     [obj |-> "app", verb |-> "get", path |-> <<"a", "{y}">>],
     [obj |-> "router", verb |-> "options", path |-> <<"a", "{x}">>]}

\* The api_calls the web-script parser can have stored for a function.
CallSet ==
    {[method |-> "GET", path |-> <<"api", "a", "${y}">>],
     [method |-> "POST", path |-> <<"api", "a", "${y}">>],
     [method |-> "GET", path |-> <<"api", "a", "b">>],
     [method |-> "GET", path |-> <<"a", "${y}">>]}

RECURSIVE SumLen(_, _)
SumLen(f, S) ==
    IF S = {} THEN 0
    ELSE LET x == CHOOSE y \in S : TRUE IN Len(f[x]) + SumLen(f, S \ {x})

Perms(S) == {p \in [1..Cardinality(S) -> S] : \A i, j \in DOMAIN p : p[i] = p[j] => i = j}

\* PythonParser._parse_api_decorator: the route a decorator declares.
ParseApiDecorator(d) ==
    IF d.verb \in HttpVerbs
    THEN {[method |-> Upper(d.verb), path |-> d.path]}
    ELSE {}

\* PythonParser._parse_to_hierarchy, lines 136-144: metadata.api_routes.
ApiRoutes(decos) == UNION {ParseApiDecorator(decos[i]) : i \in DOMAIN decos}

\* A normalization that leaves the frontend path as written.
NormalizeJsPathIdentity(path) == path

\* re.sub(r'\{[^}]+\}', '{VAR}', path)
NormalizePyPath(path) ==
    [i \in DOMAIN path |-> IF path[i] \in PyParams THEN "{VAR}" ELSE path[i]]

\* re.sub(r'\$\{[^}]+\}', '{VAR}', path)
NormalizeJsPath(path) ==
    [i \in DOMAIN path |-> IF path[i] \in JsPlaceholders THEN "{VAR}" ELSE path[i]]

API_PREFIX == <<"api">>

\* f"{method} {path}"
ApiKey(method, path) == <<method>> \o path

\* re.search(r'@router\.(get|post|put|delete|patch)\("([^"]*)"', content): the
\* first decorator of the content that the pattern matches, as a set.
RouterMatches(d) == d.obj = "router" /\ d.verb \in RouterPatternVerbs

FirstRouterMatch(decos) ==
    LET hits == {i \in DOMAIN decos : RouterMatches(decos[i])}
    IN  IF hits = {} THEN {}
        ELSE {decos[CHOOSE i \in hits : \A j \in hits : i <= j]}

\* get_py_api_endpoints over the rows in the order the query returned them; a
\* later definition with the same key replaces the earlier one.
RECURSIVE GetPyApiEndpoints(_, _)
GetPyApiEndpoints(rows, endpoints) ==
    IF rows = <<>> THEN endpoints
    ELSE LET id == Head(rows)
             decos == pyDefs[id]
             hasRouter == \E i \in DOMAIN decos : decos[i].obj = "router"
             m == IF hasRouter THEN FirstRouterMatch(decos) ELSE {}
         IN  IF m = {} THEN GetPyApiEndpoints(Tail(rows), endpoints)
             ELSE LET d == CHOOSE x \in m : TRUE
                      key == ApiKey(Upper(d.verb), API_PREFIX \o NormalizePyPath(d.path))
                  IN  GetPyApiEndpoints(Tail(rows),
                          (key :> [def |-> id, route |-> d]) @@ endpoints)

\* main, lines 145-241, for one function: only the first matching call of the
\* function yields a workflow.
RECURSIVE WorkflowsOfFunctionFirstOnly(_, _, _)
WorkflowsOfFunctionFirstOnly(f, i, endpoints) ==
    IF i > Len(jsFuncs[f]) THEN <<>>
    ELSE LET c == jsFuncs[f][i]
             key == ApiKey(c.method, NormalizeJsPath(c.path))
         IN  IF key \in DOMAIN endpoints
             THEN <<[name |-> ApiKey(c.method, c.path), js |-> f, call |-> i,
                     endpoint |-> endpoints[key].def]>>
             ELSE WorkflowsOfFunctionFirstOnly(f, i + 1, endpoints)

\* main, lines 145-241, for one function: one workflow for every api_call whose
\* normalized key is a key of py_endpoints, reported under the literal path.
RECURSIVE WorkflowsOfFunction(_, _, _)
WorkflowsOfFunction(f, i, endpoints) ==
    IF i > Len(jsFuncs[f]) THEN <<>>
    ELSE LET c == jsFuncs[f][i]
             key == ApiKey(c.method, NormalizeJsPath(c.path))
             rest == WorkflowsOfFunction(f, i + 1, endpoints)
         IN  IF key \in DOMAIN endpoints
             THEN <<[name |-> ApiKey(c.method, c.path), js |-> f, call |-> i,
                     endpoint |-> endpoints[key].def]>> \o rest
             ELSE rest

\* main, lines 140-241: the functions in the order the query returned them.
RECURSIVE TraceWorkflows(_, _)
TraceWorkflows(rows, endpoints) ==
    IF rows = <<>> THEN <<>>
    ELSE WorkflowsOfFunction(Head(rows), 1, endpoints)
            \o TraceWorkflows(Tail(rows), endpoints)

NoEndpoints == [k \in {} |-> 0]
\* No run yet: a one-entry output no run prints.
NoOutput == <<[name |-> <<>>, js |-> 0, call |-> 0, endpoint |-> 0]>>

\* The stored project the tracer reads.
TracerInit ==
    /\ pyDefs \in {f \in [PyIds -> SeqsUpTo(DecoSet, MaxDecos)] : SumLen(f, PyIds) <= MaxDecos}
    /\ jsFuncs \in {f \in [JsIds -> SeqsUpTo(CallSet, MaxCalls)] : SumLen(f, JsIds) <= MaxCalls}
    /\ tr_pc = "idle"
    /\ tr_endpoints = NoEndpoints
    /\ tr_out = NoOutput
    /\ tr_prev = NoOutput

TracerIdle ==
    /\ pyDefs = [i \in PyIds |-> <<>>]
    /\ jsFuncs = [i \in JsIds |-> <<>>]
    /\ tr_pc = "idle"
    /\ tr_endpoints = NoEndpoints
    /\ tr_out = NoOutput
    /\ tr_prev = NoOutput

\* main(): get_all_definitions and get_all_js_elements select without ORDER BY,
\* so each query returns its rows in an order the store chooses.
TracerMain ==
    /\ tr_pc \in {"idle", "done"}
    /\ \E pyRows \in Perms(PyIds), jsRows \in Perms(JsIds) :
          LET endpoints == GetPyApiEndpoints(pyRows, NoEndpoints)
          IN  /\ tr_endpoints' = endpoints
              /\ tr_out' = TraceWorkflows(jsRows, endpoints)
    /\ tr_prev' = tr_out
    /\ tr_pc' = "done"
    /\ UNCHANGED <<pyDefs, jsFuncs>>
    /\ UNCHANGED nonTracerVars

NextTracer == TracerMain

-----------------------------------------------------------------------------
(***************************************************************************)
(* The call graph (src/workflows/api_function_mapper.py) and               *)
(* find_js_callees (src/workflows/full_stack_tracer.py).                   *)
(*                                                                         *)
(* A file path is the sequence of its components, a dotted name the        *)
(* sequence of its segments.  The content of an element is the set of the  *)
(* dotted tokens \b[\w\.]+\b finds in its source lines, each with whether  *)
(* an opening parenthesis follows it.                                      *)
(***************************************************************************)
MaxMentions == 2    \* references, imports and JS calls beyond the headers

FileA == <<"a.py">>
FileB == <<"pkg", "b.py">>

\* The function and class rows of the stored project, without content.
DefSkeleton ==
    << [id |-> 1, name |-> <<"f">>, path |-> FileA, kind |-> "function"],
       [id |-> 2, name |-> <<"C">>, path |-> FileA, kind |-> "class"],
       [id |-> 3, name |-> <<"C", "m">>, path |-> FileA, kind |-> "function"],
       [id |-> 4, name |-> <<"g">>, path |-> FileB, kind |-> "function"],
       [id |-> 5, name |-> <<"K">>, path |-> FileB, kind |-> "class"],
       [id |-> 6, name |-> <<"K", "m">>, path |-> FileB, kind |-> "function"],
       [id |-> 10, name |-> <<"f">>, path |-> FileA, kind |-> "function"],
       [id |-> 11, name |-> <<"C", "n">>, path |-> FileA, kind |-> "function"] >>

\* The orders in which the query can return the rows, one for each relative
\* order of the two rows named f in a.py (rows with different (path, name)
\* can trade places without changing any map built from them).
DefRowOrders == {<<1, 2, 3, 4, 5, 6, 7, 8>>, <<7, 1, 2, 3, 4, 5, 6, 8>>}

DefIds == {DefSkeleton[i].id : i \in DOMAIN DefSkeleton}

\* What a body can mention: f(  g(  self.m(  mod.g(  x.m(
RefMenu ==
    {[parts |-> <<"f">>, call |-> TRUE],
     [parts |-> <<"g">>, call |-> TRUE],
     [parts |-> <<"self", "m">>, call |-> TRUE],
     [parts |-> <<"mod", "g">>, call |-> TRUE],
     [parts |-> <<"x", "m">>, call |-> TRUE]}

RefSlots == {[def |-> d, ref |-> r] : d \in DefIds, r \in RefMenu}

\* The import statements the project can hold: the importing file, the
\* statement's form, the module's leading dots and segments, the imported
\* names, each with the name after "as" ("" when there is none), whether the
\* names stand in parentheses, and for "import" the name after "as".
FileC == <<"pkg", "c.py">>

ImportFrom(path, dots, module, names, paren) ==
    [path |-> path, form |-> "from", dots |-> dots, module |-> module,
     names |-> names, paren |-> paren, asname |-> ""]

ImportModule(path, module, asname) ==
    [path |-> path, form |-> "import", dots |-> 0, module |-> module,
     names |-> <<>>, paren |-> FALSE, asname |-> asname]

Name(n) == [name |-> n, asname |-> ""]
NameAs(n, a) == [name |-> n, asname |-> a]

ImportMenu ==
    {ImportFrom(FileA, 0, <<"pkg", "b">>, <<Name("g")>>, FALSE),
     ImportFrom(FileA, 0, <<"pkg", "b">>, <<Name("K")>>, FALSE),
     ImportFrom(FileA, 0, <<"pkg", "b">>, <<NameAs("g", "f")>>, FALSE),
     ImportModule(FileA, <<"pkg", "b">>, "mod"),
     ImportModule(FileA, <<"pkg", "b">>, ""),
     ImportFrom(FileA, 0, <<"pkg">>, <<NameAs("b", "mod")>>, FALSE),
     ImportFrom(FileA, 1, <<"pkg", "b">>, <<Name("g")>>, FALSE),
     ImportFrom(FileB, 2, <<"a">>, <<Name("f")>>, FALSE),
     ImportModule(FileA, <<"os">>, ""),
     ImportFrom(FileA, 0, <<"pkg", "b">>, <<Name("g"), Name("K")>>, FALSE),
     ImportFrom(FileA, 0, <<"pkg", "b">>, <<Name("g"), Name("K")>>, TRUE),
     ImportFrom(FileC, 1, <<>>, <<Name("b")>>, FALSE)}

\* The Javascript function rows: a declaration's content holds "name(".
JsSkeleton ==
    << [id |-> 7, name |-> [text |-> "p", loc |-> 0], header |-> {"p"}],
       [id |-> 8, name |-> [text |-> "q", loc |-> 0], header |-> {"q"}],
       [id |-> 9, name |-> [text |-> "(anonymous)", loc |-> 3], header |-> {}] >>

JsFnIds == {JsSkeleton[i].id : i \in DOMAIN JsSkeleton}

\* What a Javascript body can call beyond its header.
JsSlots == {[fn |-> 7, name |-> "q"], [fn |-> 8, name |-> "p"], [fn |-> 9, name |-> "p"]}

\* The subsets of S with at most n elements.
RECURSIVE SubsetsUpTo(_, _)
SubsetsUpTo(S, n) ==
    IF n <= 0 THEN {{}}
    ELSE LET smaller == SubsetsUpTo(S, n - 1)
         IN  smaller \cup {T \cup {x} : T \in smaller, x \in S}

IsPrefix(s, t) == Len(s) <= Len(t) /\ SubSeq(t, 1, Len(s)) = s

\* The tokens of an element's own first line: "def f(", "def m(self", "class C".
HeaderRefs(d) ==
    IF d.kind = "class"
    THEN {[parts |-> <<d.name[Len(d.name)]>>, call |-> FALSE]}
    ELSE {[parts |-> <<d.name[Len(d.name)]>>, call |-> TRUE]}
            \cup (IF Len(d.name) > 1 THEN {[parts |-> <<"self">>, call |-> FALSE]} ELSE {})

\* The content of an element is its source lines, those of the elements
\* nested in it included.
Content(d, slots) ==
    UNION {HeaderRefs(DefSkeleton[i]) \cup {s.ref : s \in {x \in slots : x.def = DefSkeleton[i].id}} :
              i \in {j \in DOMAIN DefSkeleton :
                        \/ DefSkeleton[j].id = d.id
                        \/ /\ DefSkeleton[j].path = d.path
                           /\ IsPrefix(d.name, DefSkeleton[j].name)
                           /\ Len(DefSkeleton[j].name) > Len(d.name)}}

DefRows(slots) ==
    [i \in DOMAIN DefSkeleton |->
        [id |-> DefSkeleton[i].id, name |-> DefSkeleton[i].name,
         path |-> DefSkeleton[i].path, kind |-> DefSkeleton[i].kind,
         content |-> Content(DefSkeleton[i], slots)]]

JsRows(slots) ==
    [i \in DOMAIN JsSkeleton |->
        [id |-> JsSkeleton[i].id, name |-> JsSkeleton[i].name,
         content |-> JsSkeleton[i].header
                        \cup {s.name : s \in {x \in slots : x.fn = JsSkeleton[i].id}}]]

\* definitions_map.get((path, name)): the last row with that path and name.
DefAt(defs, path, name) ==
    LET hits == {i \in DOMAIN defs : defs[i].path = path /\ defs[i].name = name}
    IN  IF hits = {} THEN {}
        ELSE {defs[CHOOSE i \in hits : \A j \in hits : j <= i]}

DefById(defs, id) == defs[CHOOSE i \in DOMAIN defs : defs[i].id = id]

AllPaths(defs) == {defs[i].path : i \in DOMAIN defs}

\* segments joined by the separator, ".py" appended
WithPy(segs) == [segs EXCEPT ![Len(segs)] = @ \o ".py"]

\* resolve_module_path
ResolveModulePath(importing_file, dots, module, all_project_paths) ==
    IF dots > 0
    THEN LET path_parts == IF module = <<>> THEN <<"">> ELSE module
             base_path_parts == SubSeq(importing_file, 1, Len(importing_file) - dots)
         IN  WithPy(base_path_parts \o path_parts)
    ELSE IF WithPy(module) \in all_project_paths
         THEN WithPy(module)
         ELSE module

NoAliases == [k \in {} |-> 0]

\* names_str.split(','), stripped, and re.match(r"(\w+)\s+as\s+(\w+)") on each
\* part: the i-th part as written, parentheses included, gives the original
\* name and the alias the loop works with.
NamePart(imp, i) ==
    LET n == imp.names[i]
        open == IF imp.paren /\ i = 1 THEN "(" ELSE ""
        close == IF imp.paren /\ i = Len(imp.names) THEN ")" ELSE ""
    IN  IF n.asname # "" /\ open = ""
        THEN [original |-> n.name, alias |-> n.asname]
        ELSE LET written == IF n.asname = "" THEN open \o n.name \o close
                            ELSE open \o n.name \o " as " \o n.asname \o close
             IN  [original |-> written, alias |-> written]

\* build_alias_map, lines 66-79: the names of one "from" import from the i-th on.
RECURSIVE AliasOfNames(_, _, _, _)
AliasOfNames(amap, imp, i, defs) ==
    IF i > Len(imp.names) THEN amap
    ELSE LET part == NamePart(imp, i)
             resolved_path == ResolveModulePath(imp.path, imp.dots, imp.module, AllPaths(defs))
             original_def == DefAt(defs, resolved_path, <<part.original>>)
             package_module_path == resolved_path \o <<part.original \o ".py">>
             next ==
                 IF original_def # {}
                 THEN (<<imp.path, <<part.alias>>>> :>
                          [type |-> "definition",
                           def |-> (CHOOSE d \in original_def : TRUE).id,
                           path |-> <<>>]) @@ amap
                 ELSE IF package_module_path \in AllPaths(defs)
                      THEN (<<imp.path, <<part.alias>>>> :>
                               [type |-> "module", def |-> 0,
                                path |-> package_module_path]) @@ amap
                      ELSE amap
         IN  AliasOfNames(next, imp, i + 1, defs)

\* build_alias_map, lines 58-84: one import row.
AliasOfImport(amap, imp, defs) ==
    IF imp.form = "from"
    THEN AliasOfNames(amap, imp, 1, defs)
    ELSE LET resolved_path == ResolveModulePath(imp.path, imp.dots, imp.module, AllPaths(defs))
             alias == IF imp.asname = "" THEN imp.module ELSE <<imp.asname>>
         IN  (<<imp.path, alias>> :>
                 [type |-> "module", def |-> 0, path |-> resolved_path]) @@ amap

\* build_alias_map over the import rows in the order the query returned them.
RECURSIVE BuildAliasMap(_, _, _)
BuildAliasMap(imports, defs, amap) ==
    IF imports = <<>> THEN amap
    ELSE BuildAliasMap(Tail(imports), defs, AliasOfImport(amap, Head(imports), defs))

\* A resolution of single names against the caller's own file only.
LocalCalleesOnly(caller, defs, amap) ==
    UNION {{d.id : d \in DefAt(defs, caller.path, ref.parts)} :
              ref \in {r \in caller.content : Len(r.parts) = 1}}

\* A resolution that adds the id of the lookup's result without testing that
\* the lookup found a definition.
DirectCalleesUnguarded(caller, defs, amap) ==
    UNION {LET hit == DefAt(defs, caller.path, <<ref.parts[1]>>)
           IN  IF hit = {} THEN {0} ELSE {d.id : d \in hit}
           : ref \in caller.content}

\* build_call_graph, lines 108-123: direct and module-level references.
DirectCallees(caller, defs, amap) ==
    UNION {LET parts == ref.parts
               key == <<caller.path, <<parts[1]>>>>
           IN  IF Len(parts) = 1
               THEN IF key \in DOMAIN amap /\ amap[key].type = "definition"
                    THEN {amap[key].def}
                    ELSE {d.id : d \in DefAt(defs, caller.path, parts)}
               ELSE IF key \in DOMAIN amap /\ amap[key].type = "module"
                    THEN {d.id : d \in DefAt(defs, amap[key].path, <<parts[2]>>)}
                    ELSE {}
           : ref \in caller.content}

\* build_call_graph, lines 94-103: the methods filed under a class row.
MethodsByClassId(defs, class_id) ==
    {i \in DOMAIN defs :
        /\ Len(defs[i].name) > 1
        /\ \E c \in DefAt(defs, defs[i].path, <<defs[i].name[1]>>) : c.id = class_id}

\* .name( resolved on every class of the project, imported or not.
AnyClassMethodCallees(caller, defs, amap) ==
    LET method_calls ==
            {r.parts[Len(r.parts)] : r \in {x \in caller.content : x.call /\ Len(x.parts) > 1}}
    IN  {defs[i].id : i \in {j \in DOMAIN defs :
            /\ Len(defs[j].name) > 1
            /\ defs[j].name[Len(defs[j].name)] \in method_calls}}

\* build_call_graph, lines 126-138: .name( on the classes the file imports.
ImportedMethodCallees(caller, defs, amap) ==
    LET imported_classes ==
            {amap[k].def : k \in {x \in DOMAIN amap :
                /\ x[1] = caller.path
                /\ amap[x].type = "definition"
                /\ DefById(defs, amap[x].def).kind = "class"}}
        method_calls ==
            {r.parts[Len(r.parts)] : r \in {x \in caller.content : x.call /\ Len(x.parts) > 1}}
    IN  {defs[i].id : i \in {j \in DOMAIN defs :
            \E c \in imported_classes :
                /\ j \in MethodsByClassId(defs, c)
                /\ defs[j].name[Len(defs[j].name)] \in method_calls}}

\* build_call_graph, lines 140-148: self.name inside a method.
SelfCallees(caller, defs) ==
    IF Len(caller.name) > 1
    THEN LET internal_method_calls ==
                 {r.parts[j + 1] : <<r, j>> \in
                     {<<x, i>> \in caller.content \X (1..3) :
                         i < Len(x.parts) /\ x.parts[i] = "self"}}
         IN  {d.id : d \in UNION {DefAt(defs, caller.path, <<caller.name[1], m>>) :
                                      m \in internal_method_calls}}
    ELSE {}

\* A cleanup that leaves the caller's own id among its callees.
KeepSelfReference(callees, caller_id) == callees

\* callees.discard(caller_id)
DiscardSelf(callees, caller_id) == callees \ {caller_id}

\* sorted(list(v))
RECURSIVE SortedList(_)
SortedList(S) ==
    IF S = {} THEN <<>>
    ELSE LET m == CHOOSE x \in S : \A y \in S : x <= y
         IN  <<m>> \o SortedList(S \ {m})

\* Every callee the three resolution steps add for one caller.
RawCallees(caller, defs, amap) ==
    DirectCallees(caller, defs, amap)
        \cup ImportedMethodCallees(caller, defs, amap)
        \cup SelfCallees(caller, defs)

\* build_call_graph
BuildCallGraph(defs, amap) ==
    [id \in {defs[i].id : i \in DOMAIN defs} |->
        LET caller == DefById(defs, id)
        IN  IF caller.content = {} THEN <<>>
            ELSE SortedList(DiscardSelf(RawCallees(caller, defs, amap), id))]

\* name.split(' (L')[0]
CleanName(name) == name.text

\* find_js_callees: the other named functions whose "name(" the caller's
\* content holds, in row order.
RECURSIVE FindJsCallees(_, _)
FindJsCallees(caller_func, all_js_functions) ==
    IF all_js_functions = <<>> \/ caller_func.content = {} THEN <<>>
    ELSE LET potential_callee == Head(all_js_functions)
             rest == FindJsCallees(caller_func, Tail(all_js_functions))
         IN  IF potential_callee.id = caller_func.id THEN rest
             ELSE IF CleanName(potential_callee.name) = "(anonymous)" THEN rest
             ELSE IF CleanName(potential_callee.name) \in caller_func.content
                  THEN <<potential_callee.id>> \o rest
                  ELSE rest

NoGraph == [k \in {} |-> <<>>]
NoJsCallees == [caller |-> 0, callees |-> <<>>]

\* The stored project the mapper reads.
GraphInit ==
    /\ \E R \in SubsetsUpTo(RefSlots, MaxMentions) :
       \E I \in SubsetsUpTo(ImportMenu, MaxMentions - Cardinality(R)) :
       \E J \in SubsetsUpTo(JsSlots, MaxMentions - Cardinality(R) - Cardinality(I)) :
          /\ \E order \in DefRowOrders :
                gr_defs = [k \in DOMAIN order |-> DefRows(R)[order[k]]]
          /\ gr_imports = I
          /\ gr_js = JsRows(J)
    /\ gr_pc = "start"
    /\ alias_map = NoAliases
    /\ call_graph = NoGraph
    /\ js_callees = NoJsCallees

GraphIdle ==
    /\ gr_defs = DefRows({})
    /\ gr_imports = {}
    /\ gr_js = JsRows({})
    /\ gr_pc = "start"
    /\ alias_map = NoAliases
    /\ call_graph = NoGraph
    /\ js_callees = NoJsCallees

\* main, line 195: build_alias_map over the import rows, which the query
\* returns in an order the store chooses.
BuildAliasMapStep ==
    /\ gr_pc = "start"
    /\ \E rows \in Perms(gr_imports) : alias_map' = BuildAliasMap(rows, gr_defs, NoAliases)
    /\ gr_pc' = "aliased"
    /\ UNCHANGED <<gr_defs, gr_imports, gr_js, call_graph, js_callees>>
    /\ UNCHANGED nonGraphVars

\* main, line 196: build_call_graph
BuildCallGraphStep ==
    /\ gr_pc = "aliased"
    /\ call_graph' = BuildCallGraph(gr_defs, alias_map)
    /\ gr_pc' = "graphed"
    /\ UNCHANGED <<gr_defs, gr_imports, gr_js, alias_map, js_callees>>
    /\ UNCHANGED nonGraphVars

\* full_stack_tracer.main, line 220: find_js_callees for one function
FindJsCalleesStep(i) ==
    /\ gr_pc = "graphed"
    /\ js_callees' = [caller |-> gr_js[i].id,
                      callees |-> FindJsCallees(gr_js[i], gr_js)]
    /\ gr_pc' = "js"
    /\ UNCHANGED <<gr_defs, gr_imports, gr_js, alias_map, call_graph>>
    /\ UNCHANGED nonGraphVars

NextGraph ==
    \/ BuildAliasMapStep
    \/ BuildCallGraphStep
    \/ \E i \in DOMAIN JsSkeleton : FindJsCalleesStep(i)

-----------------------------------------------------------------------------
(***************************************************************************)
(* print_call_tree (src/workflows/api_function_mapper.py), as main calls   *)
(* it for the callees of one endpoint.  The recursion is an explicit       *)
(* stack of frames: the element, its visited_path set and the index of     *)
(* the next callee of its loop.                                            *)
(***************************************************************************)
MaxEdges == 4       \* edges of the call graph
MaxFrames == 6      \* frames the interpreter allows before RecursionError

TreeNodes == {1, 2, 3, 4}

\* build_call_graph removes self-references and sorts each callee list.
TreeEdges == {e \in TreeNodes \X TreeNodes : e[1] # e[2]}

GraphOfEdges(E) ==
    [u \in TreeNodes |-> SortedList({v \in TreeNodes : <<u, v>> \in E})]

\* A check that finds no element on the path.
NeverOnPath(element_id, visited_path) == FALSE

\* element_id in visited_path
OnVisitedPath(element_id, visited_path) == element_id \in visited_path

\* The caller's set when all callees share one set instead of a copy.
SharedWithCallee(caller_visited, callee_visited) == callee_visited

\* visited_path.copy(): what the callee adds stays in the callee's copy.
VisitedAfterCallee(caller_visited, callee_visited) == caller_visited

\* The ids on the call path: the endpoint and the elements of the open frames.
CurrentPath(root, stack) == {root} \cup {stack[i].id : i \in DOMAIN stack}

\* print_call_tree's entry, lines 164-173: the marker and return, or the
\* element's lines and a new frame.
CallTree(element_id, indent_level, visited_path, root, stack, out) ==
    IF OnVisitedPath(element_id, visited_path)
    THEN [stack |-> stack,
          out |-> Append(out, [id |-> element_id, kind |-> "recursive",
                               depth |-> indent_level,
                               path |-> CurrentPath(root, stack)]),
          overflow |-> FALSE]
    ELSE IF Len(stack) >= MaxFrames
         THEN [stack |-> stack, out |-> out, overflow |-> TRUE]
         ELSE [stack |-> Append(stack, [id |-> element_id,
                                       visited |-> visited_path \cup {element_id},
                                       depth |-> indent_level,
                                       next |-> 1]),
               out |-> Append(out, [id |-> element_id, kind |-> "node",
                                    depth |-> indent_level,
                                    path |-> CurrentPath(root, stack)]),
               overflow |-> FALSE]

TreeInit ==
    /\ \E E \in SubsetsUpTo(TreeEdges, MaxEdges) : t_graph = GraphOfEdges(E)
    /\ t_root = 0
    /\ t_top = 1
    /\ t_stack = <<>>
    /\ t_out = <<>>
    /\ t_pc = "idle"

TreeIdle ==
    /\ t_graph = GraphOfEdges({})
    /\ t_root = 0
    /\ t_top = 1
    /\ t_stack = <<>>
    /\ t_out = <<>>
    /\ t_pc = "idle"

\* main, lines 200-206: one endpoint whose tree is printed.
TreeStart(endpoint) ==
    /\ t_pc = "idle"
    /\ t_root' = endpoint
    /\ t_pc' = "running"
    /\ UNCHANGED <<t_graph, t_top, t_stack, t_out>>
    /\ UNCHANGED nonTreeVars

\* main, lines 205-206: print_call_tree(callee_id, ..., 2, {endpoint['id']})
TreeTopCall ==
    /\ t_pc = "running"
    /\ t_stack = <<>>
    /\ t_top <= Len(t_graph[t_root])
    /\ LET r == CallTree(t_graph[t_root][t_top], 2, {t_root}, t_root, t_stack, t_out)
       IN  /\ t_stack' = r.stack
           /\ t_out' = r.out
           /\ t_pc' = IF r.overflow THEN "overflow" ELSE "running"
    /\ t_top' = t_top + 1
    /\ UNCHANGED <<t_graph, t_root>>
    /\ UNCHANGED nonTreeVars

\* print_call_tree, lines 174-175: the loop calls the next callee.
TreeChildCall ==
    /\ t_pc = "running"
    /\ t_stack # <<>>
    /\ LET top == t_stack[Len(t_stack)]
       IN  /\ top.next <= Len(t_graph[top.id])
           /\ LET advanced == [t_stack EXCEPT ![Len(t_stack)].next = top.next + 1]
                  r == CallTree(t_graph[top.id][top.next], top.depth + 1,
                                top.visited, t_root, advanced, t_out)
              IN  /\ t_stack' = r.stack
                  /\ t_out' = r.out
                  /\ t_pc' = IF r.overflow THEN "overflow" ELSE "running"
    /\ UNCHANGED <<t_graph, t_root, t_top>>
    /\ UNCHANGED nonTreeVars

\* print_call_tree, line 174: the loop is over, the call returns.
TreeReturn ==
    /\ t_pc = "running"
    /\ t_stack # <<>>
    /\ LET n == Len(t_stack)
           top == t_stack[n]
       IN  /\ top.next > Len(t_graph[top.id])
           /\ t_stack' =
                 IF n = 1 THEN <<>>
                 ELSE [SubSeq(t_stack, 1, n - 1) EXCEPT
                          ![n - 1].visited = VisitedAfterCallee(@, top.visited)]
    /\ UNCHANGED <<t_graph, t_root, t_top, t_out, t_pc>>
    /\ UNCHANGED nonTreeVars

\* main, line 205: the endpoint's loop is over.
TreeDone ==
    /\ t_pc = "running"
    /\ t_stack = <<>>
    /\ t_top > Len(t_graph[t_root])
    /\ t_pc' = "done"
    /\ UNCHANGED <<t_graph, t_root, t_top, t_stack, t_out>>
    /\ UNCHANGED nonTreeVars

NextTree ==
    \/ \E e \in TreeNodes : TreeStart(e)
    \/ TreeTopCall
    \/ TreeChildCall
    \/ TreeReturn
    \/ TreeDone

-----------------------------------------------------------------------------
(***************************************************************************)
(* The names the parsers give the elements of one file                     *)
(* (src/parsers/python_parser.py, src/parsers/js_parser.py) and their      *)
(* insertion (src/core/parser_manager.py).                                 *)
(*                                                                         *)
(* A statement's text is given as its first 77 characters (head) and the   *)
(* rest (tail); the tail is empty unless the head has 77 characters.       *)
(***************************************************************************)
MaxStmts == 2       \* statements of the file

LongHead == "total = first_value + second_value + third_value + fourth_value + fifth_value"

\* Top-level Python statements: the ast node and its first source line.
PyStmts ==
    {[node |-> "Import", head |-> "import os", tail |-> ""],
     [node |-> "Assign", head |-> "x = 1", tail |-> ""],
     [node |-> "FunctionDef", head |-> "f", tail |-> ""],
     [node |-> "Assign", head |-> LongHead, tail |-> "_1"],
     [node |-> "Assign", head |-> LongHead, tail |-> "_2"],
     [node |-> "Expr", head |-> "main()", tail |-> ""]}

\* Top-level Javascript statements: the tree-sitter node and its first line
\* (for a function declaration, the declared name).
JsStmts ==
    {[node |-> "function_declaration", head |-> "foo", tail |-> ""],
     [node |-> "function", head |-> "", tail |-> ""],
     [node |-> "expression_statement", head |-> "init();", tail |-> ""],
     [node |-> "lexical_declaration", head |-> "let n = 0;", tail |-> ""]}

\* The files of at most MaxStmts statements.  A statement stands at the start
\* of the line after the statement before it, or after a ";" on the same
\* line; a def stands on a line of its own.
SourceFiles(lang) ==
    LET stmts == IF lang = "py" THEN PyStmts ELSE JsStmts
    IN  {src \in UNION {[1..n -> [stmt : stmts, line : 1..MaxStmts, col : {0, 20}]] :
                            n \in 0..MaxStmts} :
            \A k \in DOMAIN src :
                /\ [line |-> src[k].line, col |-> src[k].col] \in
                      (IF k = 1 THEN {[line |-> 1, col |-> 0]}
                       ELSE {[line |-> src[k - 1].line + 1, col |-> 0],
                             [line |-> src[k - 1].line, col |-> 20]})
                /\ (lang = "py" /\ src[k].col > 0) =>
                      /\ src[k].stmt.node # "FunctionDef"
                      /\ src[k - 1].stmt.node # "FunctionDef"}

\* element['name'][:77] + "..." when the name is longer than 80 characters
TruncateName(head, rest) ==
    IF Len(head \o rest) > 80 THEN head \o "..." ELSE head \o rest

\* process_node: the kind of a top-level statement
PyKind(node) ==
    CASE node = "Import" -> "import"
      [] node = "FunctionDef" -> "function"
      [] node = "ClassDef" -> "class"
      [] node = "Assign" -> "variable_definition"
      [] OTHER -> "statement_block"

\* process_node: f"{text} (L{node.lineno})", cut to 80 characters
PyElement(s) ==
    [kind |-> PyKind(s.stmt.node),
     name |-> TruncateName(s.stmt.head,
                           s.stmt.tail \o " (L" \o ToString(s.line) \o ")")]

\* PythonParser._parse_to_hierarchy: one element per top-level statement
ParsePython(src) == [k \in DOMAIN src |-> PyElement(src[k])]

\* node.type.replace('_', ' '), declarations apart
JsKind(node) ==
    CASE node \in {"function_declaration", "function"} -> "function"
      [] node \in {"lexical_declaration", "variable_declaration"} -> "variable_declaration"
      [] node = "expression_statement" -> "expression statement"
      [] OTHER -> node

\* JavascriptParser._parse_to_hierarchy, passes 1 and 4: a declared function
\* keeps its name, an anonymous one gets its line and column, any other
\* statement is named by its first line.
JsElement(s) ==
    [kind |-> JsKind(s.stmt.node),
     name |-> IF s.stmt.node = "function"
              THEN "(anonymous) (L" \o ToString(s.line) \o ":" \o ToString(s.col) \o ")"
              ELSE s.stmt.head \o s.stmt.tail]

ParseJs(src) == [k \in DOMAIN src |-> JsElement(src[k])]

ParseInit ==
    /\ pa_lang \in {"py", "js"}
    /\ pa_src \in SourceFiles(pa_lang)
    /\ pa_elems = <<>>
    /\ pa_rows = {}
    /\ pa_pc = "source"

ParseIdle ==
    /\ pa_lang = "py"
    /\ pa_src = <<>>
    /\ pa_elems = <<>>
    /\ pa_rows = {}
    /\ pa_pc = "source"

\* parse_and_store_project, lines 101-103, for a .py file
ParsePythonStep ==
    /\ pa_pc = "source"
    /\ pa_lang = "py"
    /\ pa_elems' = ParsePython(pa_src)
    /\ pa_pc' = "parsed"
    /\ UNCHANGED <<pa_lang, pa_src, pa_rows>>
    /\ UNCHANGED nonParseVars

\* parse_and_store_project, lines 101-103, for a .js file
ParseJsStep ==
    /\ pa_pc = "source"
    /\ pa_lang = "js"
    /\ pa_elems' = ParseJs(pa_src)
    /\ pa_pc' = "parsed"
    /\ UNCHANGED <<pa_lang, pa_src, pa_rows>>
    /\ UNCHANGED nonParseVars

\* parse_and_store_project, line 131: insert_elements_recursively(elements_tree)
StoreElementsStep ==
    /\ pa_pc = "parsed"
    /\ LET r == InsertElements(EmptyDb, 1, pa_elems, 0, 1)
       IN  /\ pa_rows' = r.db.elements
           /\ pa_pc' = IF r.raised THEN "raised" ELSE "stored"
    /\ UNCHANGED <<pa_lang, pa_src, pa_elems>>
    /\ UNCHANGED nonParseVars

NextParse ==
    \/ ParsePythonStep
    \/ ParseJsStep
    \/ StoreElementsStep

\* C10 as stated: within one parsed file no two elements have the same
\* (kind, name), so inserting the elements of a parsed file never violates
\* the unique index on (file_id, name, kind).
C10_NamesUniqueInFile ==
    /\ \A i, j \in DOMAIN pa_elems :
          (pa_elems[i].kind = pa_elems[j].kind /\ pa_elems[i].name = pa_elems[j].name)
              => i = j
    /\ pa_pc # "raised"

-----------------------------------------------------------------------------
(***************************************************************************)
(* The line ranges and the contents of the parsers' elements               *)
(* (src/parsers/python_parser.py, js_parser.py, html_parser.py).           *)
(*                                                                         *)
(* A file is a sequence of blocks.  A block is its source lines with what  *)
(* the language's tree parser (ast, tree-sitter, lxml) makes of them: the  *)
(* nodes, each with its number in the block, the number of its parent      *)
(* (0: a child of the root) and its lines counted within the block.  A     *)
(* text of several lines is the sequence of its lines, so the number of    *)
(* its newlines is its length less one.  The tree of elements a parser     *)
(* returns is the set of its elements, each with the id of its parent      *)
(* (0: an element of the returned list).                                   *)
(***************************************************************************)
MaxBlocks == 2      \* blocks of the file

\* an ast node: node.lineno, node.end_lineno, node.decorator_list[0].lineno
\* (0: no decorator)
PyNode(n, type, parent, lineno, end_lineno, deco) ==
    [n |-> n, type |-> type, parent |-> parent, lineno |-> lineno,
     end_lineno |-> end_lineno, deco |-> deco]

PyBlocks ==
    {[lines |-> <<"import os">>, bad |-> FALSE, comments |-> {},
      nodes |-> {PyNode(1, "Import", 0, 1, 1, 0)}],
     [lines |-> <<"class C:", "    x = 1", "    @staticmethod",
                  "    def m():", "        pass">>,
      bad |-> FALSE, comments |-> {},
      nodes |-> {PyNode(1, "ClassDef", 0, 1, 5, 0),
                 PyNode(2, "Assign", 1, 2, 2, 0),
                 PyNode(3, "FunctionDef", 1, 4, 5, 3),
                 PyNode(4, "Pass", 3, 5, 5, 0)}],
     [lines |-> <<"# note">>, bad |-> FALSE, comments |-> {1}, nodes |-> {}],
     [lines |-> <<"def broken(:", "    pass">>, bad |-> TRUE, comments |-> {},
      nodes |-> {}]}

\* a tree-sitter node: node.start_point[0], node.end_point[0] (rows from 0).
\* The nodes of a block are numbered in document order.  What the passes
\* read off a call_expression is its role: "dom_loaded" for
\* document.addEventListener('DOMContentLoaded', <function>), with the number
\* of the handler's statement_block as body and end_byte - start_byte as
\* span; "dom_call" for document.getElementById / querySelector /
\* querySelectorAll; "listener" for any other <member>.addEventListener with
\* two arguments.
JsNode(n, type, parent, start_row, end_row) ==
    [n |-> n, type |-> type, parent |-> parent, start_row |-> start_row,
     end_row |-> end_row, role |-> "", body |-> 0, span |-> 0]

JsBlocks ==
    {[lines |-> <<"function foo() {", "  const go = () => {", "    run();",
                  "  };", "}">>,
      bad |-> FALSE, comments |-> {},
      nodes |-> {JsNode(1, "function_declaration", 0, 0, 4),
                 JsNode(2, "statement_block", 1, 0, 4),
                 JsNode(3, "lexical_declaration", 2, 1, 3),
                 JsNode(4, "variable_declarator", 3, 1, 3),
                 JsNode(5, "arrow_function", 4, 1, 3),
                 JsNode(6, "statement_block", 5, 1, 3),
                 JsNode(7, "expression_statement", 6, 2, 2)}],
     [lines |-> <<"init();">>, bad |-> FALSE, comments |-> {},
      nodes |-> {JsNode(1, "expression_statement", 0, 0, 0)}],
     [lines |-> <<"const cfg = {", "  a: 1", "};">>, bad |-> FALSE, comments |-> {},
      nodes |-> {JsNode(1, "lexical_declaration", 0, 0, 2),
                 JsNode(2, "variable_declarator", 1, 0, 2)}],
     [lines |-> <<"const h = () => 1;">>, bad |-> FALSE, comments |-> {},
      nodes |-> {JsNode(1, "lexical_declaration", 0, 0, 0),
                 JsNode(2, "variable_declarator", 1, 0, 0),
                 JsNode(3, "arrow_function", 2, 0, 0)}],
     \* the children of the handler's statement_block include its braces
     [lines |-> <<"document.addEventListener('DOMContentLoaded', () => {",
                  "  setup();", "});">>,
      bad |-> FALSE, comments |-> {},
      nodes |-> {JsNode(1, "expression_statement", 0, 0, 2),
                 [JsNode(2, "call_expression", 1, 0, 2)
                     EXCEPT !.role = "dom_loaded", !.body = 6, !.span = 67],
                 JsNode(3, "member_expression", 2, 0, 0),
                 JsNode(4, "arguments", 2, 0, 2),
                 JsNode(5, "arrow_function", 4, 0, 2),
                 JsNode(6, "statement_block", 5, 0, 2),
                 JsNode(7, "{", 6, 0, 0),
                 JsNode(8, "expression_statement", 6, 1, 1),
                 JsNode(9, "}", 6, 2, 2)}],
     [lines |-> <<"document.getElementById('go').addEventListener('click',",
                  "  function () { run(); });">>,
      bad |-> FALSE, comments |-> {},
      nodes |-> {JsNode(1, "expression_statement", 0, 0, 1),
                 [JsNode(2, "call_expression", 1, 0, 1) EXCEPT !.role = "listener"],
                 JsNode(3, "member_expression", 2, 0, 0),
                 [JsNode(4, "call_expression", 3, 0, 0) EXCEPT !.role = "dom_call"],
                 JsNode(5, "arguments", 2, 0, 1),
                 JsNode(6, "function", 5, 1, 1),
                 JsNode(7, "statement_block", 6, 1, 1),
                 JsNode(8, "expression_statement", 7, 1, 1)}],
     [lines |-> <<"const btn = document.querySelector('#b');">>,
      bad |-> FALSE, comments |-> {},
      nodes |-> {JsNode(1, "lexical_declaration", 0, 0, 0),
                 JsNode(2, "variable_declarator", 1, 0, 0),
                 [JsNode(3, "call_expression", 2, 0, 0) EXCEPT !.role = "dom_call"]}]}

\* an lxml element: el.tag, el.sourceline, LH.tostring(el).strip() as its
\* lines, whether "".join(el.itertext()) and el.text have a non-blank
\* character, len(el), and the attributes is_ui_element reads.  sourceline
\* is 0 for an element whose sourceline the parser never reads.
HtmlNode(n, tag, parent, sourceline, snippet, text, kids) ==
    [n |-> n, type |-> tag, parent |-> parent, sourceline |-> sourceline,
     snippet |-> snippet, text |-> text, own |-> FALSE, kids |-> kids,
     onclick |-> FALSE, href |-> "", input_type |-> ""]

HtmlOpen == "<html><body>"
HtmlClose == "</body></html>"

HtmlBlocks ==
    {[lines |-> <<"<p>Hi</p>">>, bad |-> FALSE, comments |-> {},
      nodes |-> {[HtmlNode(1, "p", 0, 1, <<"<p>Hi</p>">>, TRUE, 0)
                     EXCEPT !.own = TRUE]}],
     [lines |-> <<"<div><button>Go</button></div>">>, bad |-> FALSE, comments |-> {},
      nodes |-> {HtmlNode(1, "div", 0, 1, <<"<div><button>Go</button></div>">>, TRUE, 1),
                 [HtmlNode(2, "button", 1, 1, <<"<button>Go</button>">>, TRUE, 0)
                     EXCEPT !.own = TRUE]}],
     [lines |-> <<"<div>", "<span", "  class=\"a\"", "><button>Go</button></span>",
                  "</div>">>,
      bad |-> FALSE, comments |-> {},
      nodes |-> {HtmlNode(1, "div", 0, 1,
                          <<"<div>", "<span class=\"a\"><button>Go</button></span>",
                            "</div>">>, TRUE, 1),
                 HtmlNode(2, "span", 1, 0, <<>>, TRUE, 1),
                 [HtmlNode(3, "button", 2, 4, <<"<button>Go</button>">>, TRUE, 0)
                     EXCEPT !.own = TRUE]}],
     [lines |-> <<"<input type=\"hidden\" name=\"t\">", "<a href=\"/home\">Home</a>">>,
      bad |-> FALSE, comments |-> {},
      nodes |-> {[HtmlNode(1, "input", 0, 1, <<"<input type=\"hidden\" name=\"t\">">>,
                           FALSE, 0) EXCEPT !.input_type = "hidden"],
                 [HtmlNode(2, "a", 0, 2, <<"<a href=\"/home\">Home</a>">>, TRUE, 0)
                     EXCEPT !.own = TRUE, !.href = "/home"]}]}

BlocksOf(lang) ==
    CASE lang = "py" -> PyBlocks
      [] lang = "js" -> JsBlocks
      [] OTHER -> HtmlBlocks

RECURSIVE LinesOf(_)
LinesOf(blocks) ==
    IF blocks = <<>> THEN <<>> ELSE Head(blocks).lines \o LinesOf(Tail(blocks))

\* the number of lines of the file above block k
Offset(lang, blocks, k) ==
    Len(LinesOf(SubSeq(blocks, 1, k - 1))) + (IF lang = "html" THEN 1 ELSE 0)

\* The file: its lines, the nodes of its tree (each with its block k and the
\* lines above the block), whether ast.parse rejects it, and the lines of its
\* comment tokens.
Doc(lang, blocks) ==
    [lines |-> IF lang = "html"
               THEN <<HtmlOpen>> \o LinesOf(blocks) \o <<HtmlClose>>
               ELSE LinesOf(blocks),
     nodes |-> UNION {{[k |-> k, base |-> Offset(lang, blocks, k), nd |-> nd] :
                          nd \in blocks[k].nodes} : k \in DOMAIN blocks},
     bad |-> \E k \in DOMAIN blocks : blocks[k].bad,
     comments |-> UNION {{Offset(lang, blocks, k) + c : c \in blocks[k].comments} :
                             k \in DOMAIN blocks}]

NodeId(p) == 10 * p.k + p.nd.n
ParentNodeId(p) == IF p.nd.parent = 0 THEN 0 ELSE 10 * p.k + p.nd.parent
ChildNodes(p, nodes) == {c \in nodes : ParentNodeId(c) = NodeId(p)}

RECURSIVE Descendants(_, _)
Descendants(p, nodes) ==
    ChildNodes(p, nodes) \cup UNION {Descendants(c, nodes) : c \in ChildNodes(p, nodes)}

\* "".join(source_lines[start:end]) with start = start_line - 1, end = end_line
SourceSlice(lines, start_line, end_line) ==
    LET lo == IF start_line < 1 THEN 1 ELSE start_line
        hi == IF end_line > Len(lines) THEN Len(lines) ELSE end_line
    IN  [i \in 1..(hi - lo + 1) |-> lines[lo + i - 1]]

\* content.strip() is empty
BlankContent(lines) == \A i \in DOMAIN lines : lines[i] \in {"", " "}

ErrorElement ==
    [id |-> 0, kind |-> "error", start_line |-> 1, end_line |-> 1, parent |-> 0,
     seq |-> 0]

\* The place of an element in the list that holds it.  seq is the order in
\* which the parser made its elements: an element is appended to the
\* children of its parent, or to the roots, in that order, and the list of
\* roots is then sorted by start_line (list.sort is stable); no list of
\* children is sorted.
Place(e, elements) ==
    LET before == {s \in elements :
                      /\ s.parent = e.parent
                      /\ IF e.parent = 0
                         THEN \/ s.start_line < e.start_line
                              \/ s.start_line = e.start_line /\ s.seq < e.seq
                         ELSE s.seq < e.seq}
    IN  1 + Cardinality(before)

\* ---- PythonParser ----

\* process_node: the kind of a node; "none" where process_node returns None
ProcessNodeKind(type, is_child) ==
    CASE type \in {"Import", "ImportFrom"} -> "import"
      [] type \in {"FunctionDef", "AsyncFunctionDef"} -> "function"
      [] type = "ClassDef" -> "class"
      [] type \in {"Assign", "AnnAssign"} ->
            IF is_child THEN "class_variable" ELSE "variable_definition"
      [] OTHER -> IF is_child THEN "none" ELSE "statement_block"

\* process_node: the element of a node and, below it, the elements of the
\* definitions in a function's body and of every statement of a class's body
RECURSIVE ProcessNode(_, _, _, _)
ProcessNode(p, is_child, parent_id, nodes) ==
    LET kind == ProcessNodeKind(p.nd.type, is_child)
        element == [id |-> NodeId(p), kind |-> kind,
                    start_line |-> IF p.nd.deco > 0 THEN p.base + p.nd.deco
                                   ELSE p.base + p.nd.lineno,
                    end_line |-> p.base + p.nd.end_lineno,
                    parent |-> parent_id, seq |-> NodeId(p)]
        body == CASE kind = "function" ->
                        {c \in ChildNodes(p, nodes) :
                            c.nd.type \in {"FunctionDef", "AsyncFunctionDef", "ClassDef"}}
                  [] kind = "class" -> ChildNodes(p, nodes)
                  [] OTHER -> {}
    IN  IF kind = "none" THEN {}
        ELSE {element} \cup
             UNION {ProcessNode(c, TRUE, NodeId(p), nodes) : c \in body}

CodeLines(elements) == UNION {e.start_line..e.end_line : e \in elements}

\* the comment tokens on lines no element covers, consecutive lines merged
CommentBlocks(comments, code_lines) ==
    LET free == comments \ code_lines
    IN  {[id |-> 1000 + s, kind |-> "comment_block", start_line |-> s,
          end_line |-> CHOOSE t \in free :
                          t >= s /\ (s..t) \subseteq free /\ (t + 1) \notin free,
          parent |-> 0, seq |-> 1000 + s] : s \in {l \in free : (l - 1) \notin free}}

PythonParseToHierarchy(doc) ==
    IF doc.bad THEN {ErrorElement}
    ELSE LET elements == UNION {ProcessNode(p, FALSE, 0, doc.nodes) :
                                   p \in {q \in doc.nodes : q.nd.parent = 0}}
         IN  elements \cup CommentBlocks(doc.comments, CodeLines(elements))

PythonEnrichTree(elements, lines) ==
    {[id |-> e.id, kind |-> e.kind, start_line |-> e.start_line,
      end_line |-> e.end_line, parent |-> e.parent, pos |-> Place(e, elements),
      content |-> SourceSlice(lines, e.start_line, e.end_line)] : e \in elements}

PythonParse(doc) ==
    IF BlankContent(doc.lines) THEN {}
    ELSE PythonEnrichTree(PythonParseToHierarchy(doc), doc.lines)

\* ---- JavascriptParser ----

JsFunctionTypes == {"function_declaration", "function", "arrow_function"}

\* Pass 6: the nearest node above p that has an element
RECURSIVE NearestElementAbove(_, _, _)
NearestElementAbove(p, nodes, element_ids) ==
    IF ParentNodeId(p) = 0 THEN 0
    ELSE IF ParentNodeId(p) \in element_ids THEN ParentNodeId(p)
    ELSE NearestElementAbove(CHOOSE q \in nodes : NodeId(q) = ParentNodeId(p),
                             nodes, element_ids)

\* len(source_code.encode("utf8")): every line with its newline
RECURSIVE FileSize(_)
FileSize(lines) ==
    IF lines = <<>> THEN 0 ELSE Len(Head(lines)) + 1 + FileSize(Tail(lines))

NodeOf(id, nodes) == CHOOSE q \in nodes : NodeId(q) = id

\* Pass 0, find_dom_loaded_body: the statement_block of the first
\* DOMContentLoaded call the scan meets, 0 when there is none.  The scan pops
\* the last child pushed, so of the calls in different top-level statements
\* it meets the one in the last statement first.  Both arms of the test on
\* the call's span return the body.
FindDomLoadedBody(doc) ==
    LET calls == {p \in doc.nodes : p.nd.role = "dom_loaded" /\ p.nd.body # 0}
        file_size == IF FileSize(doc.lines) = 0 THEN 1 ELSE FileSize(doc.lines)
    IN  IF calls = {} THEN 0
        ELSE LET n == CHOOSE p \in calls : \A q \in calls : q.k <= p.k
                 call_span == n.nd.span
                 body == 10 * n.k + n.nd.body
             IN  IF 5 * call_span > 4 * file_size THEN body ELSE body

\* root_node.children, and what a query's captures(root_node) ranges over
RootChildren(root, nodes) == {p \in nodes : ParentNodeId(p) = root}
BelowRoot(root, nodes) ==
    IF root = 0 THEN nodes ELSE Descendants(NodeOf(root, nodes), nodes)

\* Pass 2: the node a DOM call's element is made for: the declarator, pair or
\* assignment right above it, else the nearest declarator or pair above it,
\* else the call itself
RECURSIVE NearestDeclarator(_, _, _)
NearestDeclarator(p, nodes, call) ==
    IF ParentNodeId(p) = 0 THEN call
    ELSE LET anc == NodeOf(ParentNodeId(p), nodes)
         IN  IF anc.nd.type \in {"variable_declarator", "pair"} THEN anc
             ELSE NearestDeclarator(anc, nodes, call)

DomElementNode(call_node, nodes) ==
    IF /\ ParentNodeId(call_node) # 0
       /\ NodeOf(ParentNodeId(call_node), nodes).nd.type
              \in {"variable_declarator", "pair", "assignment_expression"}
    THEN NodeOf(ParentNodeId(call_node), nodes)
    ELSE NearestDeclarator(call_node, nodes, call_node)

\* Pass 2, the loop over the DOM calls in document order: a call that is
\* already processed is skipped, the others get an element and mark the
\* element's node and everything below it as processed
RECURSIVE DomPass(_, _, _, _)
DomPass(calls, nodes, processed, found) ==
    IF calls = {} THEN [processed |-> processed, found |-> found]
    ELSE LET call_node == CHOOSE x \in calls : \A y \in calls : NodeId(x) <= NodeId(y)
             element_node == DomElementNode(call_node, nodes)
         IN  IF call_node \in processed
             THEN DomPass(calls \ {call_node}, nodes, processed, found)
             ELSE DomPass(calls \ {call_node}, nodes,
                          processed \cup {element_node}
                              \cup Descendants(element_node, nodes),
                          found \cup {element_node})

\* Pass 3, the loop over the addEventListener calls: the element is made for
\* the call itself
RECURSIVE ListenerPass(_, _, _, _)
ListenerPass(calls, nodes, processed, found) ==
    IF calls = {} THEN [processed |-> processed, found |-> found]
    ELSE LET node == CHOOSE x \in calls : \A y \in calls : NodeId(x) <= NodeId(y)
         IN  IF node \in processed
             THEN ListenerPass(calls \ {node}, nodes, processed, found)
             ELSE ListenerPass(calls \ {node}, nodes,
                               processed \cup {node} \cup Descendants(node, nodes),
                               found \cup {node})

\* Passes 0 to 4 and 6.  An element keeps its tree-sitter node; the error
\* element has none.  seq is the element's place in elements_by_node_id: the
\* functions of Pass 1 first, then the DOM definitions, the listeners and the
\* top-level statements, each pass in document order.
JsParseToHierarchy(doc, raises) ==
    IF raises THEN {ErrorElement}
    ELSE LET root_node == FindDomLoadedBody(doc)
             scope == BelowRoot(root_node, doc.nodes)
             funcs == {p \in scope : p.nd.type \in JsFunctionTypes}
             processed1 == funcs \cup UNION {Descendants(p, doc.nodes) : p \in funcs}
             pass2 == DomPass({p \in scope : p.nd.role = "dom_call"}, doc.nodes,
                              processed1, {})
             pass3 == ListenerPass({p \in scope : p.nd.role \in {"listener", "dom_loaded"}},
                                   doc.nodes, pass2.processed, {})
             others == {p \in RootChildren(root_node, doc.nodes) :
                           /\ p \notin pass3.processed
                           /\ Descendants(p, doc.nodes) \cap pass3.processed = {}}
             all_nodes == funcs \cup pass2.found \cup pass3.found \cup others
             element_ids == {NodeId(p) : p \in all_nodes}
             pass(p) == CASE p \in funcs -> 1
                          [] p \in pass2.found -> 2
                          [] p \in pass3.found -> 3
                          [] OTHER -> 4
         IN  {[id |-> NodeId(p),
               kind |-> CASE p \in funcs -> "function"
                          [] p \in pass2.found -> "dom_element_definition"
                          [] p \in pass3.found -> "event_listener"
                          [] OTHER -> JsKind(p.nd.type),
               start_line |-> p.base + p.nd.start_row + 1,
               end_line |-> p.base + p.nd.end_row + 1,
               parent |-> NearestElementAbove(p, doc.nodes, element_ids),
               seq |-> 1000 * pass(p) + NodeId(p),
               node |-> NodeId(p)] : p \in all_nodes}


\* _enrich_tree: del element['node'] raises KeyError for an element without
\* a node
JsEnrichTree(elements, lines) ==
    IF \E e \in elements : "node" \notin DOMAIN e
    THEN [raised |-> "KeyError", elements |-> {}]
    ELSE [raised |-> "none",
          elements |-> {[id |-> e.id, kind |-> e.kind, start_line |-> e.start_line,
                         end_line |-> e.end_line, parent |-> e.parent,
                         pos |-> Place(e, elements),
                         content |-> SourceSlice(lines, e.start_line, e.end_line)] :
                            e \in elements}]

JavascriptParse(doc, raises) ==
    IF BlankContent(doc.lines) THEN [raised |-> "none", elements |-> {}]
    ELSE JsEnrichTree(JsParseToHierarchy(doc, raises), doc.lines)

\* ---- HTMLParser ----

TextTags == {"h1", "h2", "h3", "h4", "h5", "h6", "label", "p"}
ScriptHrefs == {"javascript:void(0)"}

is_ui_element(nd) ==
    \/ nd.type \in {"button", "select", "textarea"}
    \/ nd.type = "input" /\ nd.input_type # "hidden"
    \/ nd.onclick
    \/ nd.type = "a" /\ nd.href \in {"", "#"} \cup ScriptHrefs
    \/ nd.type \in TextTags /\ nd.text
    \/ nd.type = "div" /\ (nd.kids > 0 \/ nd.own)

\* _extract_with_lxml: end_line = start_line + snippet.count("\n"), the
\* content is the snippet, the parent the nearest element above
ExtractWithLxml(doc) ==
    LET ui == {p \in doc.nodes : is_ui_element(p.nd)}
        element_ids == {NodeId(p) : p \in ui}
        elements == {[id |-> NodeId(p), kind |-> "ui_element",
                      start_line |-> p.base + p.nd.sourceline,
                      end_line |-> p.base + p.nd.sourceline + (Len(p.nd.snippet) - 1),
                      parent |-> NearestElementAbove(p, doc.nodes, element_ids),
                      seq |-> NodeId(p), content |-> p.nd.snippet] : p \in ui}
    IN  {[id |-> e.id, kind |-> e.kind, start_line |-> e.start_line,
          end_line |-> e.end_line, parent |-> e.parent, pos |-> Place(e, elements),
          content |-> e.content] : e \in elements}

\* _extract_with_bs4: the selected tags, every one at start_line 1 in a flat
\* list
ExtractWithBs4(doc) ==
    LET selected == {p \in doc.nodes :
                        /\ \/ p.nd.type \in {"button", "input", "select", "textarea", "a"}
                           \/ p.nd.type \in TextTags
                           \/ p.nd.onclick
                        /\ ~(p.nd.type = "a" /\ ~p.nd.onclick
                               /\ p.nd.href \notin {"", "#"} \cup ScriptHrefs)
                        /\ ~(p.nd.type = "input" /\ p.nd.input_type = "hidden")
                        /\ ~(p.nd.type \in TextTags /\ ~p.nd.text)}
        elements == {[id |-> NodeId(p), kind |-> "ui_element", start_line |-> 1,
                      end_line |-> 1 + (Len(p.nd.snippet) - 1), parent |-> 0,
                      seq |-> NodeId(p), content |-> p.nd.snippet] : p \in selected}
    IN  {[id |-> e.id, kind |-> e.kind, start_line |-> e.start_line,
          end_line |-> e.end_line, parent |-> e.parent, pos |-> Place(e, elements),
          content |-> e.content] : e \in elements}

\* parse: lxml first, BeautifulSoup when the lxml extraction raises
HtmlParse(doc, raises) ==
    IF BlankContent(doc.lines) THEN {}
    ELSE IF raises THEN ExtractWithBs4(doc) ELSE ExtractWithLxml(doc)

EnrichInit ==
    /\ en_lang \in {"py", "js", "html"}
    /\ en_blocks \in UNION {[1..n -> BlocksOf(en_lang)] : n \in 0..MaxBlocks}
    /\ en_raises \in (IF en_lang = "py" THEN {FALSE} ELSE BOOLEAN)
    /\ en_out = {}
    /\ en_pc = "source"

EnrichIdle ==
    /\ en_lang = "py"
    /\ en_blocks = <<>>
    /\ en_raises = FALSE
    /\ en_out = {}
    /\ en_pc = "source"

\* PythonParser.parse
PythonParserParse ==
    /\ en_pc = "source"
    /\ en_lang = "py"
    /\ en_out' = PythonParse(Doc("py", en_blocks))
    /\ en_pc' = "returned"
    /\ UNCHANGED <<en_lang, en_blocks, en_raises>>
    /\ UNCHANGED nonEnrichVars

\* JavascriptParser.parse
JavascriptParserParse ==
    /\ en_pc = "source"
    /\ en_lang = "js"
    /\ LET r == JavascriptParse(Doc("js", en_blocks), en_raises)
       IN  /\ en_out' = r.elements
           /\ en_pc' = IF r.raised = "none" THEN "returned" ELSE "raised"
    /\ UNCHANGED <<en_lang, en_blocks, en_raises>>
    /\ UNCHANGED nonEnrichVars

\* HTMLParser.parse
HTMLParserParse ==
    /\ en_pc = "source"
    /\ en_lang = "html"
    /\ en_out' = HtmlParse(Doc("html", en_blocks), en_raises)
    /\ en_pc' = "returned"
    /\ UNCHANGED <<en_lang, en_blocks, en_raises>>
    /\ UNCHANGED nonEnrichVars

NextEnrich ==
    \/ PythonParserParse
    \/ JavascriptParserParse
    \/ HTMLParserParse

(***************************************************************************)
(* The walk of parse_and_store_project over the project directory          *)
(* (src/core/parser_manager.py, lines 59-103, src/config.py).              *)
(*                                                                         *)
(* A file of the project is the sequence of the directories above it,      *)
(* below the project's root, and its name as os.path.splitext splits it:   *)
(* the root and the extension.                                             *)
(***************************************************************************)
MaxWalkFiles == 2   \* files of the project directory

IGNORED_DIRECTORIES ==
    {".venv", "venv", "__pycache__", ".git", ".idea", "node_modules", "dist",
     "build", ".specstory"}
IGNORED_FILE_EXTENSIONS == {".pyc", ".log", ".tmp", ".swp", ".bak"}
IGNORED_FILES == {".DS_Store"}
PARSER_MAPPING ==
    [e \in {".py", ".js", ".html", ".htm"} |->
        CASE e = ".py" -> "PythonParser"
          [] e = ".js" -> "JavascriptParser"
          [] OTHER -> "HTMLParser"]

WalkDirNames == {"src", "node_modules"}
WalkDirs == UNION {[1..n -> WalkDirNames] : n \in 0..2}
WalkNames ==
    {[root |-> "a", ext |-> ".py"],
     [root |-> "app", ext |-> ".JS"],
     [root |-> "old.py", ext |-> ".BAK"],
     [root |-> ".DS_Store", ext |-> ""],
     [root |-> "notes", ext |-> ".txt"]}
WalkFiles == {[dirs |-> d, root |-> n.root, ext |-> n.ext] : d \in WalkDirs, n \in WalkNames}

\* extension.lower()
LowerExt(ext) ==
    CASE ext = ".JS" -> ".js"
      [] ext = ".BAK" -> ".bak"
      [] OTHER -> ext

Filename(f) == f.root \o f.ext

\* line 66: the file is skipped by its name or its extension
IgnoredFile(f) ==
    \/ Filename(f) \in IGNORED_FILES
    \/ LowerExt(f.ext) \in IGNORED_FILE_EXTENSIONS

\* get_parser_for_file
HasParser(f) == LowerExt(f.ext) \in DOMAIN PARSER_MAPPING

\* the directories os.walk lists in directory d
SubDirs(d, tree) ==
    {SubSeq(f.dirs, 1, Len(d) + 1) :
        f \in {g \in tree : Len(g.dirs) > Len(d) /\ SubSeq(g.dirs, 1, Len(d)) = d}}

\* the files os.walk lists in directory d
FilesIn(d, tree) == {f \in tree : f.dirs = d}

DescendEverywhere(dirs) == dirs

\* line 62: dirs[:] = [d for d in dirs if d not in config.IGNORED_DIRECTORIES]
PruneDirs(dirs) == {d \in dirs : d[Len(d)] \notin IGNORED_DIRECTORIES}

WalkInit ==
    /\ wk_tree \in SubsetsUpTo(WalkFiles, MaxWalkFiles)
    /\ wk_stack = << <<>> >>
    /\ wk_files = {}
    /\ wk_opened = {}
    /\ wk_parsed = {}
    /\ wk_recorded = {}
    /\ wk_pc = "walking"

WalkIdle ==
    /\ wk_tree = {}
    /\ wk_stack = <<>>
    /\ wk_files = {}
    /\ wk_opened = {}
    /\ wk_parsed = {}
    /\ wk_recorded = {}
    /\ wk_pc = "idle"

\* os.walk yields the next directory, top down: its files are looped over,
\* its directories that are kept are walked next, in the order listed
WalkDirectory ==
    /\ wk_pc = "walking"
    /\ wk_files = {}
    /\ wk_stack # <<>>
    /\ LET d == Head(wk_stack)
       IN  /\ \E order \in Perms(PruneDirs(SubDirs(d, wk_tree))) :
                 wk_stack' = order \o Tail(wk_stack)
           /\ wk_files' = FilesIn(d, wk_tree)
    /\ UNCHANGED <<wk_tree, wk_opened, wk_parsed, wk_recorded, wk_pc>>
    /\ UNCHANGED nonWalkVars

\* lines 65-67: continue
SkipIgnoredFile(f) ==
    /\ wk_pc = "walking"
    /\ f \in wk_files
    /\ IgnoredFile(f)
    /\ wk_files' = wk_files \ {f}
    /\ UNCHANGED <<wk_tree, wk_stack, wk_opened, wk_parsed, wk_recorded, wk_pc>>
    /\ UNCHANGED nonWalkVars

\* lines 72-74: no parser for the extension
SkipUnsupportedFile(f) ==
    /\ wk_pc = "walking"
    /\ f \in wk_files
    /\ ~IgnoredFile(f)
    /\ ~HasParser(f)
    /\ wk_files' = wk_files \ {f}
    /\ UNCHANGED <<wk_tree, wk_stack, wk_opened, wk_parsed, wk_recorded, wk_pc>>
    /\ UNCHANGED nonWalkVars

\* lines 77-85: the file is opened; it cannot be read, or its content is blank
SkipUnreadableOrBlankFile(f) ==
    /\ wk_pc = "walking"
    /\ f \in wk_files
    /\ ~IgnoredFile(f)
    /\ HasParser(f)
    /\ wk_opened' = wk_opened \cup {f}
    /\ wk_files' = wk_files \ {f}
    /\ UNCHANGED <<wk_tree, wk_stack, wk_parsed, wk_recorded, wk_pc>>
    /\ UNCHANGED nonWalkVars

\* lines 77-131: the file is opened and read, its record inserted, its
\* content parsed; the parser returns, or raises and the call rolls back
ParseFile(f, raises) ==
    /\ wk_pc = "walking"
    /\ f \in wk_files
    /\ ~IgnoredFile(f)
    /\ HasParser(f)
    /\ wk_opened' = wk_opened \cup {f}
    /\ wk_parsed' = wk_parsed \cup {f}
    /\ wk_recorded' = IF raises THEN {} ELSE wk_recorded \cup {f}
    /\ wk_pc' = IF raises THEN "raised" ELSE "walking"
    /\ wk_files' = wk_files \ {f}
    /\ UNCHANGED <<wk_tree, wk_stack>>
    /\ UNCHANGED nonWalkVars

\* line 133: conn.commit()
WalkCommit ==
    /\ wk_pc = "walking"
    /\ wk_files = {}
    /\ wk_stack = <<>>
    /\ wk_pc' = "done"
    /\ UNCHANGED <<wk_tree, wk_stack, wk_files, wk_opened, wk_parsed, wk_recorded>>
    /\ UNCHANGED nonWalkVars

NextWalk ==
    \/ WalkDirectory
    \/ \E f \in WalkFiles : SkipIgnoredFile(f)
    \/ \E f \in WalkFiles : SkipUnsupportedFile(f)
    \/ \E f \in WalkFiles : SkipUnreadableOrBlankFile(f)
    \/ \E f \in WalkFiles, raises \in BOOLEAN : ParseFile(f, raises)
    \/ WalkCommit

(***************************************************************************)
(* get_project_parsing_status (src/api/projects.py).                       *)
(*                                                                         *)
(* The content of a file is the sequence of its characters: "x" for a      *)
(* character that is not whitespace, " " for a blank, "\n" for a newline.  *)
(***************************************************************************)
MaxChars == 3       \* characters of the content of the file under test
MaxRanges == 2      \* stored elements

StatusChars == {"x", " ", "\n"}
StatusLineNos == 0..3
StatusProjects == {"p", "q"}

\* content.splitlines(): the lines without their newlines; a newline at the
\* end of the content starts no line
RECURSIVE SplitLines(_, _)
SplitLines(content, line) ==
    IF content = <<>> THEN (IF line = <<>> THEN <<>> ELSE <<line>>)
    ELSE IF Head(content) = "\n" THEN <<line>> \o SplitLines(Tail(content), <<>>)
    ELSE SplitLines(Tail(content), Append(line, Head(content)))

\* line_text.strip() is not empty
NotBlank(line) == \E k \in DOMAIN line : line[k] = "x"

CoveredLinesEndExcluded(file_elements) ==
    UNION {e.start_line..(e.end_line - 1) : e \in file_elements}

\* lines 86-89: range(el['start_line'], el['end_line'] + 1) of every element
CoveredLines(file_elements) ==
    UNION {e.start_line..e.end_line : e \in file_elements}

\* lines 91-96
IsUnparsed(content, file_elements) ==
    LET content_lines == SplitLines(content, <<>>)
    IN  \E i \in DOMAIN content_lines :
            NotBlank(content_lines[i]) /\ i \notin CoveredLines(file_elements)

\* get_project_parsing_status: "404" for an unknown project, else the ids of
\* the files reported, sorted by path
ParsingStatus(project_name, db) ==
    IF project_name \notin db.projects THEN [status |-> 404, files |-> <<>>]
    ELSE LET files == {f \in db.files : f.project = project_name /\ f.is_latest}
             file_ids == {f.id : f \in files}
             elements == {e \in db.elements : e.file_id \in file_ids /\ e.is_latest}
             unparsed == {f \in files :
                             IsUnparsed(f.content, {e \in elements : e.file_id = f.id})}
         IN  [status |-> 200,
              files |-> SortedList({f.path : f \in unparsed})]

StatusInit ==
    /\ \E content \in UNION {[1..n -> StatusChars] : n \in 0..MaxChars},
          others \in SUBSET {[id |-> 2, project |-> "p", path |-> 2,
                              content |-> <<"x">>, is_latest |-> TRUE]},
          elements \in SubsetsUpTo([file_id : {1, 2}, start_line : StatusLineNos \ {0},
                                    end_line : StatusLineNos, is_latest : {TRUE}],
                                   MaxRanges) :
          ps_db = [projects |-> {"p"},
                   files |-> {[id |-> 1, project |-> "p", path |-> 1,
                               content |-> content, is_latest |-> TRUE]} \cup others,
                   elements |-> elements]
    /\ ps_result = [status |-> 0, files |-> <<>>]
    /\ ps_pc = "idle"

StatusIdle ==
    /\ ps_db = [projects |-> {}, files |-> {}, elements |-> {}]
    /\ ps_result = [status |-> 0, files |-> <<>>]
    /\ ps_pc = "idle"

GetProjectParsingStatus(project_name) ==
    /\ ps_pc = "idle"
    /\ ps_result' = ParsingStatus(project_name, ps_db)
    /\ ps_pc' = "done"
    /\ UNCHANGED ps_db
    /\ UNCHANGED nonStatusVars

NextStatus == \E project_name \in StatusProjects : GetProjectParsingStatus(project_name)

(***************************************************************************)
(* Claims about the call graph.                                            *)
(***************************************************************************)

\* C6: no call-graph edge is a self-edge.  In build_call_graph's result no
\* element's callee list holds the element's own id, whatever its content
\* mentions, and find_js_callees never returns the caller.
C6_NoSelfEdge ==
    /\ gr_pc \in {"graphed", "js"} =>
          \A id \in DOMAIN call_graph :
              \A n \in DOMAIN call_graph[id] : call_graph[id][n] # id
    /\ gr_pc = "js" =>
          \A n \in DOMAIN js_callees.callees : js_callees.callees[n] # js_callees.caller

\* C6's case: a method whose body calls self.<itself> resolved to its own id
\* before the cleanup, and a Javascript declaration whose content holds its
\* own name was the caller.
C6_Witness ==
    /\ gr_pc = "js"
    /\ 3 \in SelfCallees(DefById(gr_defs, 3), gr_defs)
    /\ 1 \in DirectCallees(DefById(gr_defs, 1), gr_defs, alias_map)
    /\ js_callees.caller = 7
    /\ "p" \in gr_js[1].content
    /\ js_callees.callees # <<>>

Reverse(rows) == [k \in DOMAIN rows |-> rows[Len(rows) + 1 - k]]

Callees(id) == {call_graph[id][n] : n \in DOMAIN call_graph[id]}

\* The definitions named name in the file at path.
DefsNamed(path, name) ==
    {gr_defs[i] : i \in {j \in DOMAIN gr_defs :
                            gr_defs[j].path = path /\ gr_defs[j].name = <<name>>}}

\* The callables of file path whose content holds name as a reference of its own.
Mentioning(path, name) ==
    {gr_defs[i] : i \in {j \in DOMAIN gr_defs :
        /\ gr_defs[j].path = path
        /\ \E r \in gr_defs[j].content : r.parts = <<name>>}}

\* The file a "from" import's module resolves to.
ResolvedModule(imp) ==
    ResolveModulePath(imp.path, imp.dots, imp.module, AllPaths(gr_defs))

\* C14 as stated: every entry of the alias map points at something that
\* exists in the project, a Definition entry at a known element and a Module
\* entry at a known file path; an import that resolves to neither adds no
\* entry.
C14_AliasEntriesExist ==
    gr_pc # "start" =>
        \A k \in DOMAIN alias_map :
            /\ alias_map[k].type = "definition" =>
                  \E i \in DOMAIN gr_defs : gr_defs[i].id = alias_map[k].def
            /\ alias_map[k].type = "module" =>
                  alias_map[k].path \in AllPaths(gr_defs)

C19_SortedAndOrderFree ==
    gr_pc \in {"graphed", "js"} =>
        /\ \A id \in DOMAIN call_graph : \A m, n \in DOMAIN call_graph[id] :
              m < n => call_graph[id][m] < call_graph[id][n]
        /\ \A defs \in {gr_defs, Reverse(gr_defs)} :
           \A imports \in Perms(gr_imports) :
              BuildCallGraph(defs, BuildAliasMap(imports, defs, NoAliases)) = call_graph

\* What the rule of C20 gives for the i-th name of a "from" import: the
\* entries it allows under the key (importer, A or else N).
C20_Expected(imp, i) ==
    LET n == imp.names[i].name
        targets == DefsNamed(ResolvedModule(imp), n)
        package_module_path == ResolvedModule(imp) \o <<n \o ".py">>
    IN  IF targets # {}
        THEN {[type |-> "definition", def |-> t.id, path |-> <<>>] : t \in targets}
        ELSE IF package_module_path \in AllPaths(gr_defs)
             THEN {[type |-> "module", def |-> 0, path |-> package_module_path]}
             ELSE {}

C20_Key(imp, i) ==
    <<imp.path, <<IF imp.names[i].asname = "" THEN imp.names[i].name
                  ELSE imp.names[i].asname>>>>

\* C20 as stated: for each name N of `from M import N [as A]`, N possibly one
\* of a list, the alias map holds under (importer, A or else N) the
\* Definition of N in the file M resolves to, else the Module <resolved M>/N.py
\* when that is a project file, else nothing (unless another import of the
\* file binds the same name).
C20_FromImportRule ==
    gr_pc # "start" =>
        \A imp \in {x \in gr_imports : x.form = "from"} :
        \A i \in DOMAIN imp.names :
            LET key == C20_Key(imp, i)
                others == {x \in gr_imports :
                              \/ x.form = "import" /\ x.path = imp.path
                                    /\ <<x.path, <<x.asname>>>> = key
                              \/ x.form = "from" /\ x # imp
                                    /\ \E j \in DOMAIN x.names : C20_Key(x, j) = key}
            IN  others = {} =>
                    IF C20_Expected(imp, i) = {} THEN key \notin DOMAIN alias_map
                    ELSE key \in DOMAIN alias_map /\ alias_map[key] \in C20_Expected(imp, i)

\* C21 as stated: a plain `import a.b.c` is entered in the alias map under
\* the name after "as" when there is one and otherwise under the last module
\* segment, with the value Module(resolved path of a.b.c).  The code keys an
\* import without "as" by the whole dotted module string.
C21_PlainImportKey ==
    gr_pc # "start" =>
        \A imp \in {x \in gr_imports : x.form = "import"} :
            LET key == <<imp.path, <<IF imp.asname = "" THEN imp.module[Len(imp.module)]
                                     ELSE imp.asname>>>>
            IN  /\ key \in DOMAIN alias_map
                /\ alias_map[key].type = "module"
                /\ alias_map[key].path = ResolvedModule(imp)

\* the names of the member calls .name( of a content
MemberCalls(g) ==
    {r.parts[Len(r.parts)] : r \in {x \in g.content : x.call /\ Len(x.parts) > 1}}

\* the class rows the file at path imports as a Definition
ImportedClasses(path) ==
    {gr_defs[i] : i \in {j \in DOMAIN gr_defs :
        /\ gr_defs[j].kind = "class"
        /\ \E k \in DOMAIN alias_map :
              /\ k[1] = path
              /\ alias_map[k].type = "definition"
              /\ alias_map[k].def = gr_defs[j].id}}

\* t is a method of the class row c
MethodOf(t, c) == Len(t.name) > 1 /\ t.path = c.path /\ t.name[1] = c.name[1]

\* the member-call rule gives the edge g -> t
ByMemberCall(g, t) ==
    /\ t.name[Len(t.name)] \in MemberCalls(g)
    /\ \E c \in ImportedClasses(g.path) : MethodOf(t, c)

\* the self-reference rule gives the edge g -> t: g is a method of the class
\* of t in the same file and its content holds self.<t's name>
BySelfReference(g, t) ==
    /\ Len(g.name) > 1
    /\ t.path = g.path
    /\ Len(t.name) = 2
    /\ t.name[1] = g.name[1]
    /\ \E r \in g.content : \E i \in 1..(Len(r.parts) - 1) :
          r.parts[i] = "self" /\ r.parts[i + 1] = t.name[2]

MethodRows == {gr_defs[i] : i \in {j \in DOMAIN gr_defs : Len(gr_defs[j].name) > 1}}
CallerRows == {gr_defs[i] : i \in DOMAIN gr_defs}

\* C23 as stated: a member call .m( in a callable's content adds an edge to
\* every method named m of every class the caller's file imports as a
\* Definition, and to no method of a class the file does not import.
C23_MemberCallOnlyImported ==
    gr_pc \in {"graphed", "js"} =>
        \A g \in CallerRows : \A t \in MethodRows :
            t.id # g.id =>
                /\ ByMemberCall(g, t) => t.id \in Callees(g.id)
                /\ (t.id \in Callees(g.id) /\ t.name[Len(t.name)] \in MemberCalls(g))
                      => ByMemberCall(g, t)

\* C23 amended: a method is a callee exactly when the member-call rule gives
\* it (a class the caller's file imports has it under the called name) or
\* the self-reference rule does (the caller is a method of the same class of
\* the same file and holds self.<name>); a same-named method of any other
\* class is no callee.
C23_MemberCallOrSelf ==
    gr_pc \in {"graphed", "js"} =>
        \A g \in CallerRows : \A t \in MethodRows :
            t.id # g.id =>
                (t.id \in Callees(g.id) <=> (ByMemberCall(g, t) \/ BySelfReference(g, t)))

\* C23's case: a.py imports the class K and its function f calls x.m(: the
\* edge goes to K.m of pkg/b.py and not to C.m of a.py's own class C.
C23_Witness ==
    /\ gr_pc = "graphed"
    /\ \E g \in CallerRows :
          /\ g.id = 1
          /\ "m" \in MemberCalls(g)
          /\ 6 \in Callees(1)
          /\ 3 \notin Callees(1)

\* C30: the call graph is closed over the definitions it was built from:
\* every id in a callee list is the id of a row of all_definitions and a key
\* of the graph, so the lookup of a callee in the elements map finds it.
C30_GraphClosed ==
    gr_pc \in {"graphed", "js"} =>
        \A id \in DOMAIN call_graph : \A n \in DOMAIN call_graph[id] :
            /\ call_graph[id][n] \in DOMAIN call_graph
            /\ \E i \in DOMAIN gr_defs : gr_defs[i].id = call_graph[id][n]

\* C30's case: edges through an imported name, an imported class's method
\* and a module alias are in the graph.
C30_Witness ==
    /\ gr_pc = "graphed"
    /\ \E k \in DOMAIN alias_map : alias_map[k].type = "definition"
    /\ \E id \in DOMAIN call_graph : Len(call_graph[id]) >= 2

-----------------------------------------------------------------------------
(***************************************************************************)
(* Claims about print_call_tree.                                           *)
(***************************************************************************)

NodeLines(e) == {n \in DOMAIN t_out : t_out[n].id = e /\ t_out[n].kind = "node"}

\* The lines of the subtree printed under line n: those after n up to the
\* next line that is not deeper than n.
SubtreeEnd(n) ==
    LET later == {k \in DOMAIN t_out : k > n /\ t_out[k].depth <= t_out[n].depth}
    IN  IF later = {} THEN Len(t_out) + 1 ELSE CHOOSE k \in later : \A j \in later : k <= j

\* The ids printed one level below line n, in order.
RECURSIVE ChildIds(_, _, _)
ChildIds(n, k, last) ==
    IF k >= last THEN <<>>
    ELSE IF t_out[k].depth = t_out[n].depth + 1
         THEN <<t_out[k].id>> \o ChildIds(n, k + 1, last)
         ELSE ChildIds(n, k + 1, last)

\* The open frames hold pairwise different elements, none of them the
\* endpoint; an element reached on the current path got the recursive marker
\* and nothing was printed below the marker; the recursion never ran out of
\* frames.
C7_PathIsSimple ==
    /\ t_pc # "overflow"
    /\ \A i, j \in DOMAIN t_stack : t_stack[i].id = t_stack[j].id => i = j
    /\ \A i \in DOMAIN t_stack : t_stack[i].id # t_root
    /\ Len(t_stack) < Cardinality(TreeNodes)
    /\ \A n \in DOMAIN t_out :
          /\ t_out[n].id \in t_out[n].path => t_out[n].kind = "recursive"
          /\ (t_out[n].kind = "recursive" /\ n < Len(t_out))
                => t_out[n + 1].depth <= t_out[n].depth

\* C7: expanding a call tree terminates on every call graph, cycles included:
\* an element already on the current path from the endpoint (the endpoint
\* included) gets a recursive marker and is not descended into, so the
\* expansion always reaches its end.
C7_TreeTerminates == []C7_PathIsSimple /\ <>(t_pc = "done")

\* C7's case: the expansion of a graph with a cycle of three elements through
\* the endpoint ended, having printed a marker for the endpoint at the third
\* level of the tree.
C7_Witness ==
    /\ t_pc = "done"
    /\ \E n \in DOMAIN t_out :
          /\ t_out[n].kind = "recursive"
          /\ t_out[n].id = t_root
          /\ t_out[n].depth = 4

-----------------------------------------------------------------------------
(***************************************************************************)
(* Claims about the tracer.                                                *)
(***************************************************************************)

WorkflowsFor(f, i) == {n \in DOMAIN tr_out : tr_out[n].js = f /\ tr_out[n].call = i}
WorkflowsOfEndpoint(k) ==
    {n \in DOMAIN tr_out : tr_out[n].endpoint = tr_endpoints[k].def}
CallKey(f, i) == ApiKey(jsFuncs[f][i].method, NormalizeJsPath(jsFuncs[f][i].path))

SegmentsMatch(js, py) ==
    \/ js \in JsPlaceholders /\ py \in PyParams
    \/ js \notin JsPlaceholders /\ py \notin PyParams /\ js = py

PathsMatch(jsPath, pyPath) ==
    /\ Len(jsPath) = Len(pyPath) + 1
    /\ jsPath[1] = "api"
    /\ \A i \in DOMAIN pyPath : SegmentsMatch(jsPath[i + 1], pyPath[i])

\* C4: a call site is traced to an endpoint of the endpoint set exactly when
\* the methods are equal and the frontend path, placeholders aside, is /api
\* followed by the backend path, parameters aside; the workflow is named by
\* the literal frontend path.
C4_MatchRule ==
    tr_pc = "done" =>
        /\ \A f \in JsIds : \A i \in DOMAIN jsFuncs[f] : \A k \in DOMAIN tr_endpoints :
              (\E n \in WorkflowsFor(f, i) : tr_out[n].endpoint = tr_endpoints[k].def)
              <=>
              (/\ jsFuncs[f][i].method = Upper(tr_endpoints[k].route.verb)
               /\ PathsMatch(jsFuncs[f][i].path, tr_endpoints[k].route.path))
        /\ \A n \in DOMAIN tr_out :
              LET c == jsFuncs[tr_out[n].js][tr_out[n].call]
              IN  tr_out[n].name = <<c.method>> \o c.path

\* C4's case: a workflow whose frontend path holds a placeholder and whose
\* endpoint declares a parameter of another name.
C4_Witness ==
    /\ tr_pc = "done"
    /\ \E n \in DOMAIN tr_out : \E k \in DOMAIN tr_endpoints :
          /\ tr_out[n].endpoint = tr_endpoints[k].def
          /\ tr_out[n].name[4] = "${y}"
          /\ tr_endpoints[k].route.path[2] = "{x}"

\* C5 as stated: every route a function's decorators declare is a key of the
\* endpoint set.
C5_EveryDeclaredRouteIsAnEndpoint ==
    tr_pc = "done" =>
        \A d \in PyIds : \A r \in ApiRoutes(pyDefs[d]) :
            ApiKey(r.method, API_PREFIX \o NormalizePyPath(r.path)) \in DOMAIN tr_endpoints

\* C9 as stated: two runs of the tracer over the same stored project print the
\* same workflows in the same order.
C9_SameOutputEveryRun ==
    (tr_pc = "done" /\ tr_prev # NoOutput) => tr_out = tr_prev

-----------------------------------------------------------------------------
(***************************************************************************)
(* The two resolvers of a module string: resolve_module_path of            *)
(* api_function_mapper (ResolveModulePath above) and of                    *)
(* global_import_mapper.  A module string is its number of leading dots    *)
(* and its dot-separated segments; a path is its components, an absolute   *)
(* path starting with the component "/" (or "//", which normpath keeps).   *)
(***************************************************************************)
MaxDots == 3

ResolveFiles == {<<"a.py">>, <<"pkg", "c.py">>, <<"pkg", "sub", "d.py">>}
ResolveModules == {<<>>, <<"a">>, <<"b">>, <<"pkg", "b">>, <<"e", "f">>}

\* os.path.dirname
Dirname(path) == SubSeq(path, 1, Len(path) - 1)

\* module_str[1:].replace('.', os.path.sep) + ".py": one dot is removed, every
\* further leading dot becomes a separator in front of the segments.
\* os.path.join drops current_dir when the second part starts with a
\* separator; normpath keeps exactly two leading separators and folds three
\* or more into one.
GlobalResolveModulePath(current_file_path, dots, module) ==
    IF dots > 0
    THEN LET current_dir == Dirname(current_file_path)
             relative_path == WithPy(IF module = <<>> THEN <<"">> ELSE module)
         IN  IF dots = 1 THEN current_dir \o relative_path
             ELSE IF dots = 3 THEN <<"//">> \o relative_path
             ELSE <<"/">> \o relative_path
    ELSE WithPy(module)

ResolveInit ==
    /\ rs_file \in ResolveFiles
    /\ rs_dots \in 0..MaxDots
    /\ rs_module \in ResolveModules
    /\ rs_dots = 0 => rs_module # <<>>
    /\ rs_api = <<>>
    /\ rs_global = <<>>
    /\ rs_done = {}

ResolveIdle ==
    /\ rs_file = <<"a.py">>
    /\ rs_dots = 0
    /\ rs_module = <<"a">>
    /\ rs_api = <<>>
    /\ rs_global = <<>>
    /\ rs_done = {}

\* api_function_mapper.resolve_module_path on the import
ApiResolve ==
    /\ "api" \notin rs_done
    /\ rs_api' = ResolveModulePath(rs_file, rs_dots, rs_module, ResolveFiles)
    /\ rs_done' = rs_done \cup {"api"}
    /\ UNCHANGED <<rs_file, rs_dots, rs_module, rs_global>>
    /\ UNCHANGED nonResolveVars

\* global_import_mapper.resolve_module_path on the same import
GlobalResolve ==
    /\ "global" \notin rs_done
    /\ rs_global' = GlobalResolveModulePath(rs_file, rs_dots, rs_module)
    /\ rs_done' = rs_done \cup {"global"}
    /\ UNCHANGED <<rs_file, rs_dots, rs_module, rs_api>>
    /\ UNCHANGED nonResolveVars

NextResolve == ApiResolve \/ GlobalResolve

-----------------------------------------------------------------------------
(***************************************************************************)
(* The path of an API call, from the script parser's Pass 5 to the         *)
(* tracer's key (js_parser.py 517-523, full_stack_tracer.py 145-154).      *)
(* The literal first argument of fetch or axios is the sequence of its     *)
(* segments, as a path is for the tracer; the segments that hold a "}" are *)
(* the placeholders.                                                       *)
(***************************************************************************)
MaxSegs == 3

BasePlaceholder == "${API_BASE_URL}"
ApiSegments == {BasePlaceholder, "api", "a", "${x}"}
ApiLiterals == UNION {[1..n -> ApiSegments] : n \in 1..MaxSegs}

HoldsBrace(seg) == seg \in JsPlaceholders \cup {BasePlaceholder}

\* 'API_BASE_URL' in path
HoldsBaseUrl(path) == \E i \in DOMAIN path : path[i] = BasePlaceholder

\* path.split('}')[-1]: what follows the last "}" of the text
AfterLastBrace(path) ==
    LET braces == {i \in DOMAIN path : HoldsBrace(path[i])}
    IN  IF braces = {} THEN path
        ELSE SubSeq(path, (CHOOSE i \in braces : \A j \in braces : j <= i) + 1, Len(path))

\* what follows the first "}" of the text
AfterFirstBrace(path) ==
    LET braces == {i \in DOMAIN path : HoldsBrace(path[i])}
    IN  IF braces = {} THEN path
        ELSE SubSeq(path, (CHOOSE i \in braces : \A j \in braces : i <= j) + 1, Len(path))

\* Pass 5: the path recorded in metadata.api_calls
RecordedPath(literal) ==
    IF HoldsBaseUrl(literal) THEN AfterLastBrace(literal) ELSE literal

ApiInit ==
    /\ ap_literal \in ApiLiterals
    /\ ap_path = <<>>
    /\ ap_key = <<>>
    /\ ap_pc = "source"

ApiIdle ==
    /\ ap_literal = <<"a">>
    /\ ap_path = <<>>
    /\ ap_key = <<>>
    /\ ap_pc = "source"

\* the parser records the call of a function: fetch(<literal>)
RecordApiCall ==
    /\ ap_pc = "source"
    /\ ap_path' = RecordedPath(ap_literal)
    /\ ap_pc' = "recorded"
    /\ UNCHANGED <<ap_literal, ap_key>>
    /\ UNCHANGED nonApiVars

\* the tracer normalizes the recorded path into the key it looks up
TraceApiCall ==
    /\ ap_pc = "recorded"
    /\ ap_key' = ApiKey("GET", NormalizeJsPath(ap_path))
    /\ ap_pc' = "traced"
    /\ UNCHANGED <<ap_literal, ap_path>>
    /\ UNCHANGED nonApiVars

NextApi == RecordApiCall \/ TraceApiCall

-----------------------------------------------------------------------------
(***************************************************************************)
(* The connection pool (src/core/database.py).  The request handlers run   *)
(* on the event loop's thread and the background parse task on a worker    *)
(* thread, so two callers can be inside get_db_connection at once; a       *)
(* thread can be preempted between any two statements of get_pool (the     *)
(* pool's constructor connects to the server).  close_pool runs in the     *)
(* shutdown event, after the requests in flight and their background tasks *)
(* have ended.  A pool is its number, a connection handed out is the       *)
(* number of the hand-out; 0 is None.                                      *)
(***************************************************************************)
MaxEntries == 2     \* with-blocks entered by one caller

Callers == {"handler", "task"}
MaxHandouts == 2 * MaxEntries

\* how the with-block of a caller can end: normally, by the HTTPException a
\* request handler raises, or by the exception parse_and_store_project
\* re-raises after conn.rollback()
Exits(caller) ==
    IF caller = "handler" THEN {"normal", "HTTPException"} ELSE {"normal", "reraised"}

\* a finally clause that calls putconn whatever conn is
FinallyUnguarded(conn) == {conn}

\* finally: if conn: pool.putconn(conn) -- the connections handed to putconn
Finally(conn) == IF conn # 0 THEN {conn} ELSE {}

PoolInit ==
    /\ connection_pool = 0
    /\ po_made = 0
    /\ po_next = 1
    /\ po_pc = [c \in Callers |-> "idle"]
    /\ po_pool = [c \in Callers |-> 0]
    /\ po_conn = [c \in Callers |-> 0]
    /\ po_entries = [c \in Callers |-> 0]
    /\ po_handed = 0
    /\ po_used = [h \in 1..MaxHandouts |-> 0]
    /\ po_puts = [h \in 0..MaxHandouts |-> 0]
    /\ po_how = [c \in Callers |-> "none"]

PoolIdle == PoolInit

\* get_db_connection calls get_pool: if connection_pool is None
GetPoolTest(c) ==
    /\ po_pc[c] = "idle"
    /\ po_entries[c] < MaxEntries
    /\ po_entries' = [po_entries EXCEPT ![c] = @ + 1]
    /\ po_pc' = [po_pc EXCEPT ![c] = IF connection_pool = 0 THEN "creating" ELSE "returning"]
    /\ UNCHANGED <<connection_pool, po_made, po_next, po_pool, po_conn, po_handed,
                   po_used, po_puts, po_how>>
    /\ UNCHANGED nonPoolVars

\* connection_pool = psycopg2.pool.SimpleConnectionPool(...)
GetPoolCreate(c) ==
    /\ po_pc[c] = "creating"
    /\ connection_pool' = po_next
    /\ po_next' = po_next + 1
    /\ po_made' = po_made + 1
    /\ po_pc' = [po_pc EXCEPT ![c] = "returning"]
    /\ UNCHANGED <<po_pool, po_conn, po_entries, po_handed, po_used, po_puts, po_how>>
    /\ UNCHANGED nonPoolVars

\* return connection_pool; pool = get_pool(); conn = None
GetPoolReturn(c) ==
    /\ po_pc[c] = "returning"
    /\ po_pool' = [po_pool EXCEPT ![c] = connection_pool]
    /\ po_conn' = [po_conn EXCEPT ![c] = 0]
    /\ po_pc' = [po_pc EXCEPT ![c] = "pooled"]
    /\ UNCHANGED <<connection_pool, po_made, po_next, po_entries, po_handed, po_used,
                   po_puts, po_how>>
    /\ UNCHANGED nonPoolVars

\* conn = pool.getconn(); yield conn
GetConn(c) ==
    /\ po_pc[c] = "pooled"
    /\ po_handed' = po_handed + 1
    /\ po_conn' = [po_conn EXCEPT ![c] = po_handed + 1]
    /\ po_used' = [po_used EXCEPT ![po_handed + 1] = po_pool[c]]
    /\ po_pc' = [po_pc EXCEPT ![c] = "in_block"]
    /\ UNCHANGED <<connection_pool, po_made, po_next, po_pool, po_entries, po_puts, po_how>>
    /\ UNCHANGED nonPoolVars

\* pool.getconn() raises (the server refuses, the pool is exhausted): the
\* finally clause runs with conn = None and the exception goes on
GetConnRaises(c) ==
    /\ po_pc[c] = "pooled"
    /\ po_puts' = [h \in 0..MaxHandouts |->
                      IF h \in Finally(po_conn[c]) THEN po_puts[h] + 1 ELSE po_puts[h]]
    /\ po_pool' = [po_pool EXCEPT ![c] = 0]
    /\ po_pc' = [po_pc EXCEPT ![c] = "idle"]
    /\ po_how' = [po_how EXCEPT ![c] = "getconn raised"]
    /\ UNCHANGED <<connection_pool, po_made, po_next, po_conn, po_entries, po_handed,
                   po_used>>
    /\ UNCHANGED nonPoolVars

\* the with-block ends: the generator is resumed or the exception is thrown
\* into it at the yield, the finally clause runs
ExitBlock(c, how) ==
    /\ po_pc[c] = "in_block"
    /\ how \in Exits(c)
    /\ po_puts' = [h \in 0..MaxHandouts |->
                      IF h \in Finally(po_conn[c]) THEN po_puts[h] + 1 ELSE po_puts[h]]
    /\ po_used' = [h \in 1..MaxHandouts |->
                      IF h \in Finally(po_conn[c]) THEN 0 ELSE po_used[h]]
    /\ po_conn' = [po_conn EXCEPT ![c] = 0]
    /\ po_pool' = [po_pool EXCEPT ![c] = 0]
    /\ po_pc' = [po_pc EXCEPT ![c] = "idle"]
    /\ po_how' = [po_how EXCEPT ![c] = how]
    /\ UNCHANGED <<connection_pool, po_made, po_next, po_entries, po_handed>>
    /\ UNCHANGED nonPoolVars

\* close_pool, in the shutdown event; the application may be started again
ClosePool ==
    /\ \A c \in Callers : po_pc[c] = "idle"
    /\ connection_pool # 0
    /\ connection_pool' = 0
    /\ po_made' = 0
    /\ UNCHANGED <<po_next, po_pc, po_pool, po_conn, po_entries, po_handed, po_used,
                   po_puts, po_how>>
    /\ UNCHANGED nonPoolVars

NextPool ==
    \/ \E c \in Callers : GetPoolTest(c)
    \/ \E c \in Callers : GetPoolCreate(c)
    \/ \E c \in Callers : GetPoolReturn(c)
    \/ \E c \in Callers : GetConn(c)
    \/ \E c \in Callers : GetConnRaises(c)
    \/ \E c \in Callers : \E how \in Exits(c) : ExitBlock(c, how)
    \/ ClosePool

-----------------------------------------------------------------------------
(***************************************************************************)
(* Two runs of parse_and_store_project for the same project name and path  *)
(* (src/core/parser_manager.py 37-57, 133-139), each a background task on  *)
(* its own worker thread with its own connection and transaction.  The     *)
(* database is PostgreSQL at its default isolation level: a statement sees *)
(* what is committed when it starts, a DELETE waits for the open           *)
(* transaction that already deleted the row, an INSERT waits for the open  *)
(* transaction that holds a row with the same unique key, and a sequence   *)
(* never hands out a number twice.                                         *)
(***************************************************************************)
MaxRunFiles == 2    \* files one run stores

Runs == {1, 2}
ProjectPath == "projects/demo"

\* the stored project of an earlier parse (run 0) with one file
OldStore ==
    [projects |-> {[id |-> 1, path |-> ProjectPath, run |-> 0]},
     files |-> {[project |-> 1, run |-> 0, n |-> 1]}]
NoStore == [projects |-> {}, files |-> {}]

Open(r) == cc_pc[r] \in {"delete", "insert", "files"}

\* the rows another open transaction has deleted or inserted
LockedByOther(r) == UNION {cc_deleted[o] : o \in {q \in Runs \ {r} : Open(q)}}
PendingOfOther(r) ==
    {o \in Runs \ {r} : Open(o) /\ cc_project[o] # 0}

\* the unique index on path never finds a row
NoPathConflicts(r) == {}

\* path TEXT NOT NULL UNIQUE: the committed rows with the path of the row to
\* insert that the inserting transaction has not deleted itself
PathConflicts(r) ==
    {p \in cc_committed.projects : p.path = ProjectPath /\ p.id \notin cc_deleted[r]}

RunsInit ==
    /\ cc_committed \in {NoStore, OldStore}
    /\ cc_nextid = 2
    /\ cc_pc = [r \in Runs |-> "start"]
    /\ cc_row = [r \in Runs |-> 0]
    /\ cc_deleted = [r \in Runs |-> {}]
    /\ cc_project = [r \in Runs |-> 0]
    /\ cc_files = [r \in Runs |-> {}]
    /\ cc_why = [r \in Runs |-> "none"]

RunsIdle ==
    /\ cc_committed = NoStore
    /\ cc_nextid = 2
    /\ cc_pc = [r \in Runs |-> "start"]
    /\ cc_row = [r \in Runs |-> 0]
    /\ cc_deleted = [r \in Runs |-> {}]
    /\ cc_project = [r \in Runs |-> 0]
    /\ cc_files = [r \in Runs |-> {}]
    /\ cc_why = [r \in Runs |-> "none"]

\* SELECT id FROM projects WHERE name = %s; project_row = cur.fetchone()
RunSelectProject(r) ==
    /\ cc_pc[r] = "start"
    /\ \E project_row \in {p.id : p \in cc_committed.projects} \cup
                          (IF cc_committed.projects = {} THEN {0} ELSE {}) :
          /\ cc_row' = [cc_row EXCEPT ![r] = project_row]
          /\ cc_pc' = [cc_pc EXCEPT ![r] = IF project_row # 0 THEN "delete" ELSE "insert"]
    /\ UNCHANGED <<cc_committed, cc_nextid, cc_deleted, cc_project, cc_files, cc_why>>
    /\ UNCHANGED nonRunsVars

\* DELETE FROM projects WHERE id = %s: waits while another open transaction
\* has deleted the row; deletes nothing when the row is gone by then
RunDeleteProject(r) ==
    /\ cc_pc[r] = "delete"
    /\ cc_row[r] \notin LockedByOther(r)
    /\ cc_deleted' = [cc_deleted EXCEPT ![r] =
                         @ \cup {p.id : p \in {q \in cc_committed.projects :
                                                  q.id = cc_row[r]}}]
    /\ cc_pc' = [cc_pc EXCEPT ![r] = "insert"]
    /\ UNCHANGED <<cc_committed, cc_nextid, cc_row, cc_project, cc_files, cc_why>>
    /\ UNCHANGED nonRunsVars

\* INSERT INTO projects (name, path) ... RETURNING id: waits while another
\* open transaction holds a row with the path (inserted, or deleted and not
\* yet committed); a unique violation goes to the except clause, which rolls
\* back and re-raises
RunInsertProject(r) ==
    /\ cc_pc[r] = "insert"
    /\ PendingOfOther(r) = {}
    /\ {p.id : p \in PathConflicts(r)} \cap LockedByOther(r) = {}
    /\ cc_nextid' = cc_nextid + 1
    /\ IF PathConflicts(r) # {}
       THEN /\ cc_pc' = [cc_pc EXCEPT ![r] = "rolled back"]
            /\ cc_why' = [cc_why EXCEPT ![r] = "unique violation"]
            /\ cc_deleted' = [cc_deleted EXCEPT ![r] = {}]
            /\ UNCHANGED cc_project
       ELSE /\ cc_pc' = [cc_pc EXCEPT ![r] = "files"]
            /\ cc_project' = [cc_project EXCEPT ![r] = cc_nextid]
            /\ UNCHANGED <<cc_why, cc_deleted>>
    /\ UNCHANGED <<cc_committed, cc_row, cc_files>>
    /\ UNCHANGED nonRunsVars

\* the walk stores one more file under the run's own project_id
RunInsertFile(r) ==
    /\ cc_pc[r] = "files"
    /\ Cardinality(cc_files[r]) < MaxRunFiles
    /\ cc_files' = [cc_files EXCEPT ![r] =
                       @ \cup {[project |-> cc_project[r], run |-> r,
                                n |-> Cardinality(@) + 1]}]
    /\ UNCHANGED <<cc_committed, cc_nextid, cc_pc, cc_row, cc_deleted, cc_project, cc_why>>
    /\ UNCHANGED nonRunsVars

\* a statement of the walk raises: except Exception: conn.rollback(); raise
WalkRaises(r) ==
    /\ cc_pc[r] = "files"
    /\ cc_pc' = [cc_pc EXCEPT ![r] = "rolled back"]
    /\ cc_why' = [cc_why EXCEPT ![r] = "walk raised"]
    /\ cc_deleted' = [cc_deleted EXCEPT ![r] = {}]
    /\ cc_files' = [cc_files EXCEPT ![r] = {}]
    /\ cc_project' = [cc_project EXCEPT ![r] = 0]
    /\ UNCHANGED <<cc_committed, cc_nextid, cc_row>>
    /\ UNCHANGED nonRunsVars

\* conn.commit(): the deleted project goes with its files (ON DELETE
\* CASCADE), the run's project and files become visible
CommitRun(r) ==
    /\ cc_pc[r] = "files"
    /\ cc_committed' =
          [projects |-> {p \in cc_committed.projects : p.id \notin cc_deleted[r]}
                            \cup {[id |-> cc_project[r], path |-> ProjectPath, run |-> r]},
           files |-> {f \in cc_committed.files : f.project \notin cc_deleted[r]}
                         \cup cc_files[r]]
    /\ cc_pc' = [cc_pc EXCEPT ![r] = "done"]
    /\ cc_deleted' = [cc_deleted EXCEPT ![r] = {}]
    /\ UNCHANGED <<cc_nextid, cc_row, cc_project, cc_files, cc_why>>
    /\ UNCHANGED nonRunsVars

NextRuns ==
    \/ \E r \in Runs : RunSelectProject(r)
    \/ \E r \in Runs : RunDeleteProject(r)
    \/ \E r \in Runs : RunInsertProject(r)
    \/ \E r \in Runs : RunInsertFile(r)
    \/ \E r \in Runs : WalkRaises(r)
    \/ \E r \in Runs : CommitRun(r)

-----------------------------------------------------------------------------
(***************************************************************************)
(* The specifications: one per part, the other parts idle.                 *)
(***************************************************************************)
\* the parts added for the parsers' ranges, the walk and the status request
OthersIdle == EnrichIdle /\ WalkIdle /\ StatusIdle
CoreIdle == StoreInit /\ TracerIdle /\ GraphIdle /\ TreeIdle /\ ParseIdle
\* the parts added for the resolvers, the script parser's passes and the pool
ExtrasIdle ==
    /\ ResolveIdle
    /\ ApiIdle
    /\ PoolIdle
    /\ RunsIdle

InitStore == StoreInit /\ TracerIdle /\ GraphIdle /\ TreeIdle /\ ParseIdle /\ OthersIdle /\ ExtrasIdle
SpecStore == InitStore /\ [][NextStore]_vars

InitTracer == StoreInit /\ TracerInit /\ GraphIdle /\ TreeIdle /\ ParseIdle /\ OthersIdle /\ ExtrasIdle
SpecTracer == InitTracer /\ [][NextTracer]_vars

InitGraph == StoreInit /\ TracerIdle /\ GraphInit /\ TreeIdle /\ ParseIdle /\ OthersIdle /\ ExtrasIdle
SpecGraph == InitGraph /\ [][NextGraph]_vars

\* The interpreter runs print_call_tree's next step whenever there is one.
InitTree == StoreInit /\ TracerIdle /\ GraphIdle /\ TreeInit /\ ParseIdle /\ OthersIdle /\ ExtrasIdle
SpecTree == InitTree /\ [][NextTree]_vars /\ WF_vars(NextTree)

InitParse == StoreInit /\ TracerIdle /\ GraphIdle /\ TreeIdle /\ ParseInit /\ OthersIdle /\ ExtrasIdle
SpecParse == InitParse /\ [][NextParse]_vars

InitEnrich == CoreIdle /\ EnrichInit /\ WalkIdle /\ StatusIdle /\ ExtrasIdle
SpecEnrich == InitEnrich /\ [][NextEnrich]_vars

InitWalk == CoreIdle /\ EnrichIdle /\ WalkInit /\ StatusIdle /\ ExtrasIdle
SpecWalk == InitWalk /\ [][NextWalk]_vars

InitStatus == CoreIdle /\ EnrichIdle /\ WalkIdle /\ StatusInit /\ ExtrasIdle
SpecStatus == InitStatus /\ [][NextStatus]_vars

InitResolve ==
    /\ CoreIdle
    /\ OthersIdle
    /\ ResolveInit
    /\ ApiIdle
    /\ PoolIdle
    /\ RunsIdle
SpecResolve == InitResolve /\ [][NextResolve]_vars

InitApi ==
    /\ CoreIdle
    /\ OthersIdle
    /\ ResolveIdle
    /\ ApiInit
    /\ PoolIdle
    /\ RunsIdle
SpecApi == InitApi /\ [][NextApi]_vars

InitPool ==
    /\ CoreIdle
    /\ OthersIdle
    /\ ResolveIdle
    /\ ApiIdle
    /\ PoolInit
    /\ RunsIdle
SpecPool == InitPool /\ [][NextPool]_vars

InitRuns ==
    /\ CoreIdle
    /\ OthersIdle
    /\ ResolveIdle
    /\ ApiIdle
    /\ PoolIdle
    /\ RunsInit
SpecRuns == InitRuns /\ [][NextRuns]_vars

-----------------------------------------------------------------------------
(***************************************************************************)
(* Claims about the store.                                                 *)
(***************************************************************************)

FilesOfName(db, name) ==
    {f \in db.files : \E p \in db.projects : p.id = f.project_id /\ p.name = name}

ElementsOfName(db, name) ==
    {e \in db.elements : \E f \in FilesOfName(db, name) : f.id = e.file_id}

\* C1: parse_and_store_project is all-or-nothing.  While a call runs, and
\* after a call that raised, the committed rows are those the store held when
\* the call began (also the rows of the project being re-parsed); after a call
\* that committed, the project holds every file and element the call inserted.
C1_AllOrNothing ==
    /\ st_pc # "idle" => committed = st_pre
    /\ st_result = "raised" => committed = st_pre
    /\ (st_pc = "idle" /\ st_result = "committed") =>
          /\ \E p \in committed.projects : p.id = st_call.project_id
          /\ {f.id : f \in {g \in committed.files :
                                g.project_id = st_call.project_id}} = st_log.files
          /\ {e.id : e \in {g \in committed.elements :
                                g.file_id \in st_log.files}} = st_log.elements

\* C1's case: a re-parse raised after the old rows were deleted and a new file
\* row was inserted in the transaction.
C1_Witness ==
    /\ st_pc = "idle"
    /\ st_result = "raised"
    /\ st_log.deleted
    /\ st_log.files # {}
    /\ st_pre.files # {}
    /\ committed = st_pre

\* C2: after a committed re-parse of a stored name, the store holds exactly
\* one project of that name, every file and element of it was inserted by this
\* call, and no file or element row of the earlier parse remains.
C2_ReparseReplaces ==
    (/\ st_pc = "idle"
     /\ st_result = "committed"
     /\ \E p \in st_pre.projects : p.name = st_call.name)
    =>
    /\ Cardinality({p \in committed.projects : p.name = st_call.name}) = 1
    /\ \A f \in FilesOfName(committed, st_call.name) : f.run = st_call.run
    /\ \A e \in ElementsOfName(committed, st_call.name) : e.run = st_call.run
    /\ FilesOfName(st_pre, st_call.name) \cap committed.files = {}
    /\ ElementsOfName(st_pre, st_call.name) \cap committed.elements = {}
    /\ \A f \in committed.files : \E p \in committed.projects : p.id = f.project_id

\* C2's case: a committed re-parse of a project that had files and elements.
C2_Witness ==
    /\ st_pc = "idle"
    /\ st_result = "committed"
    /\ ElementsOfName(st_pre, st_call.name) # {}
    /\ ElementsOfName(committed, st_call.name) # {}

(***************************************************************************)
(* Claims about the parsers' elements.                                     *)
(***************************************************************************)
SourceLines == Doc(en_lang, en_blocks).lines

\* C11 as stated: in every tree a parser returns, the line range of a child
\* lies inside the range of its parent: parent.start_line <=
\* child.start_line and child.end_line <= parent.end_line.  The markup
\* parser breaks it: it derives end_line from the newlines of the element's
\* serialization, which has lost the newlines inside the tags.
C11_RangeContainment ==
    en_pc = "returned" =>
        \A c \in en_out : \A p \in en_out :
            p.id = c.parent =>
                p.start_line <= c.start_line /\ c.end_line <= p.end_line

\* C12 as stated: the content of every element a parser returns is the
\* source lines start_line..end_line of the file.  The markup parser breaks
\* it: its content is the serialization of the element alone.
C12_ContentIsSourceLines ==
    en_pc = "returned" =>
        \A e \in en_out :
            /\ e.end_line <= Len(SourceLines)
            /\ e.content = SubSeq(SourceLines, e.start_line, e.end_line)

\* C16 as stated: for a source with a syntax error the script parser returns
\* exactly one element, of kind error, whose range is the whole file, and
\* does not raise.  The error element ends at line 1 whatever the length of
\* the file.
C16_SyntaxErrorSpansFile ==
    (en_lang = "py" /\ Doc(en_lang, en_blocks).bad /\ en_pc # "source") =>
        /\ en_pc = "returned"
        /\ \E e \in en_out :
              /\ en_out = {e}
              /\ e.kind = "error"
              /\ e.start_line = 1
              /\ e.end_line = Len(SourceLines)

\* C17 as stated: when the tree parser fails on a non-empty input,
\* JavascriptParser.parse returns a single error element and raises nothing.
\* The content pass deletes the node of every element and the error element
\* has none, so parse raises.
C17_FailureGivesErrorElement ==
    (en_lang = "js" /\ en_raises /\ ~BlankContent(SourceLines) /\ en_pc # "source") =>
        /\ en_pc = "returned"
        /\ \E e \in en_out : en_out = {e} /\ e.kind = "error"

(***************************************************************************)
(* Claims about the directory walk.                                        *)
(***************************************************************************)
\* the file's name or extension is ignored, or a directory above it is
IgnoredPath(f) ==
    \/ Filename(f) \in IGNORED_FILES
    \/ LowerExt(f.ext) \in IGNORED_FILE_EXTENSIONS
    \/ \E i \in DOMAIN f.dirs : f.dirs[i] \in IGNORED_DIRECTORIES

\* C18: during a project parse a file whose name is an ignored file, whose
\* extension in lower case is an ignored extension, or that lies below an
\* ignored directory is never opened, never parsed and never gets a file
\* record, in any state of the walk.
C18_IgnoredNeverTouched ==
    \A f \in wk_tree :
        IgnoredPath(f) => f \notin (wk_opened \cup wk_parsed \cup wk_recorded)

\* The walk is over; it met a parsable file below an ignored directory and
\* a file with an ignored extension, and recorded a file.
C18_Witness ==
    /\ wk_pc = "done"
    /\ wk_recorded # {}
    /\ \E f \in wk_tree :
          \/ HasParser(f) /\ f.dirs # <<>> /\ f.dirs[Len(f.dirs)] = "node_modules"
          \/ f.dirs = <<>> /\ f.ext = ".BAK"

(***************************************************************************)
(* Claims about get_project_parsing_status.                                *)
(***************************************************************************)
\* the 1-based number of the line character k stands on
LineOfChar(content, k) ==
    1 + Cardinality({j \in 1..(k - 1) : content[j] = "\n"})

\* some character that is not whitespace stands on a line that lies in the
\* range of no stored element of the file
HasUncoveredLine(f, db) ==
    \E k \in DOMAIN f.content :
        /\ f.content[k] = "x"
        /\ ~\E e \in db.elements :
              /\ e.file_id = f.id
              /\ e.start_line <= LineOfChar(f.content, k)
              /\ LineOfChar(f.content, k) <= e.end_line

Reported(f) == \E i \in DOMAIN ps_result.files : ps_result.files[i] = f.path

-----------------------------------------------------------------------------
(***************************************************************************)
(* Claims about the resolvers of a module string                           *)
(***************************************************************************)
\* the importer's directory moved up n levels
UpFrom(dir, n) == SubSeq(dir, 1, Len(dir) - n)

\* the path the rule for relative imports names
RelativeRule ==
    UpFrom(Dirname(rs_file), rs_dots - 1)
        \o WithPy(IF rs_module = <<>> THEN <<"">> ELSE rs_module)

\* C22 as stated: a relative module string with N >= 1 leading dots resolves to
\* the importer's directory moved up N-1 levels, joined with the remaining
\* segments and suffixed ".py", for every N that stays inside the project and
\* for both resolvers.
C22_RelativeRule ==
    (rs_dots >= 1 /\ rs_dots - 1 <= Len(Dirname(rs_file))) =>
        /\ "api" \in rs_done => rs_api = RelativeRule
        /\ "global" \in rs_done => rs_global = RelativeRule

-----------------------------------------------------------------------------
(***************************************************************************)
(* Claims about the passes of the script parser and the order of siblings  *)
(***************************************************************************)
JsDoc == Doc("js", en_blocks)

\* the top-level statements that do not hold a DOMContentLoaded call
OutsideWrapper ==
    {p \in JsDoc.nodes :
        /\ p.nd.parent = 0
        /\ \A w \in Descendants(p, JsDoc.nodes) : w.nd.role # "dom_loaded"}

\* every DOMContentLoaded call of the file spans at most 80% of its bytes
WrappersSmall ==
    \A w \in JsDoc.nodes :
        w.nd.role = "dom_loaded" => 5 * w.nd.span <= 4 * FileSize(JsDoc.lines)

\* C24 as stated: when the DOMContentLoaded call spans at most 80% of the
\* file, the original root is used, so every top-level statement outside the
\* wrapper still has an element within its lines.
C24_SmallWrapperKeepsRoot ==
    (en_pc = "returned" /\ en_lang = "js" /\ WrappersSmall) =>
        \A p \in OutsideWrapper :
            \E e \in en_out :
                /\ e.start_line >= p.base + p.nd.start_row + 1
                /\ e.end_line <= p.base + p.nd.end_row + 1

-----------------------------------------------------------------------------
(***************************************************************************)
(* Claims about the recorded path of an API call                           *)
(***************************************************************************)
\* C25 as stated: when the literal holds the API_BASE_URL placeholder, the
\* recorded path is what follows the first "}" of the literal, so the
\* placeholders after it are kept and the tracer's key has a {VAR} for each.
C25_PathAfterFirstBrace ==
    HoldsBaseUrl(ap_literal) =>
        /\ ap_pc \in {"recorded", "traced"} => ap_path = AfterFirstBrace(ap_literal)
        /\ ap_pc = "traced" =>
              ap_key = ApiKey("GET", NormalizeJsPath(AfterFirstBrace(ap_literal)))

-----------------------------------------------------------------------------
(***************************************************************************)
(* Claims about the connection pool                                        *)
(***************************************************************************)
\* C27 as stated: between two close_pool calls at most one pool is created,
\* whatever the interleaving of the callers' first entries.
C27_SinglePool == po_made <= 1

\* the connection a caller holds inside its with-block
Held == {po_conn[c] : c \in {d \in Callers : po_pc[d] = "in_block"}}

\* C28: a connection handed out is given back to its pool exactly once when
\* its with-block ends, however it ends, and not before; when getconn
\* raises, putconn is not called at all.
C28_ReturnedExactlyOnce ==
    /\ \A h \in 1..MaxHandouts :
          /\ h \in Held => po_puts[h] = 0 /\ po_used[h] # 0
          /\ (h <= po_handed /\ h \notin Held) => po_puts[h] = 1 /\ po_used[h] = 0
          /\ h > po_handed => po_puts[h] = 0
    /\ po_puts[0] = 0

\* the handler's with-block has ended by an HTTPException and the task's by
\* the re-raised exception, each after a getconn that raised, and every
\* connection handed out is back
C28_Witness ==
    /\ po_how["handler"] = "HTTPException"
    /\ po_how["task"] = "reraised"
    /\ \A c \in Callers : po_pc[c] = "idle" /\ po_entries[c] = 2
    /\ po_handed = 2
    /\ po_puts[1] = 1 /\ po_puts[2] = 1

-----------------------------------------------------------------------------
(***************************************************************************)
(* Claims about two concurrent runs of parse_and_store_project             *)
(***************************************************************************)
Ended(r) == cc_pc[r] \in {"done", "rolled back"}

\* C29: whatever the interleaving of two runs for the same name and path,
\* the committed store never holds two project records for the path and
\* never holds files of both runs under one project; once both runs have
\* ended, a visible project of a run has exactly the files that run stored,
\* and nothing of a rolled-back run is visible.
C29_OneRunVisible ==
    /\ Cardinality({p \in cc_committed.projects : p.path = ProjectPath}) <= 1
    /\ \A f \in cc_committed.files :
          \E p \in cc_committed.projects : p.id = f.project /\ p.run = f.run
    /\ (\A r \in Runs : Ended(r)) =>
          \A p \in {q \in cc_committed.projects : q.run \in Runs} :
              /\ cc_pc[p.run] = "done"
              /\ {f \in cc_committed.files : f.project = p.id} = cc_files[p.run]
    /\ \A r \in Runs :
          cc_pc[r] = "rolled back" =>
              /\ \A p \in cc_committed.projects : p.run # r
              /\ \A f \in cc_committed.files : f.run # r

\* both runs read the old project before either committed; one replaced it
\* with its two files and the other was rolled back by the unique index
C29_Witness ==
    /\ \A r \in Runs : cc_row[r] = 1
    /\ \E r \in Runs :
          /\ cc_pc[r] = "done"
          /\ Cardinality(cc_files[r]) = 2
          /\ \E o \in Runs \ {r} :
                cc_pc[o] = "rolled back" /\ cc_why[o] = "unique violation"
    /\ \A p \in cc_committed.projects : p.run # 0

====
